---- MODULE Spec2Model ----
(***************************************************************************)
(* A model of the fig front end: the layout transformer IndentLexer        *)
(* (crates/nyx-lexer/src/lib.rs) over the raw Logos token lexer, and the   *)
(* where-clause merge of the parser's AST (crates/fig-parser/src/ast.rs).  *)
(*                                                                         *)
(* A source text is a sequence of one-character strings; byte offsets are  *)
(* 0-based as in the Rust code, so byte o of source is source[o + 1].      *)
(***************************************************************************)
EXTENDS Integers, Sequences, FiniteSets, TLC

VARIABLES
    lx,        \* lx[i]: the fields of IndentLexer instance i
    active,    \* the instances whose next() is called in this run
    inorder,   \* whether instance 2 is run only once instance 1 has ended
    out,       \* out[i]: the items next() has returned so far, in order
    spans,     \* spans[i]: what span() answered after each of these calls
    last,      \* last[i]: what the latest call of next() did
    ev,        \* ev[i]: the latest evaluation of a line's indentation
    nones,     \* nones[i]: how many times next() has returned None
    m_params,  \* merge_where_clause: the params argument
    m_where,   \* merge_where_clause: the where_clause argument
    m_result,  \* merge_where_clause: the returned list
    m_pc,      \* "idle" | "start" | "done"
    p_entry,   \* the parser entry point in use: "Type" | "Expression" | "none"
    p_tokens,  \* the tokens the parser has taken from its token stream
    position,  \* the field position of the parser-facing Lexer
    p_result,  \* what the parse returned
    p_pc,      \* "idle" | "start" | "run" | "done"
    l_src,     \* l_src[k]: the text raw lexer k runs on
    l_pos,     \* l_pos[k]: the offset raw lexer k has reached
    l_out,     \* l_out[k]: the items raw lexer k has returned, with their spans
    l_lit,     \* the IntegerLiteral at hand and the span of its lexeme
    l_conv,    \* what as_u64 and the conversion of its error gave for l_lit
    t_source,  \* position_from_source: the source argument
    t_offset,  \* position_from_source: the offset argument
    t_position,\* position_from_source: the pair returned
    i_raw,     \* parse_interp_parts: the raw argument
    i_build,   \* whether the build checks integer overflow: "debug" | "release"
    i_parts    \* parse_interp_parts: what the call gave

lexVars == <<lx, active, inorder, out, spans, last, ev, nones>>
mergeVars == <<m_params, m_where, m_result, m_pc>>
parseVars == <<p_entry, p_tokens, position, p_result, p_pc>>
litVars == <<l_src, l_pos, l_out, l_lit, l_conv>>
textVars == <<t_source, t_offset, t_position, i_raw, i_build, i_parts>>
vars == <<lx, active, inorder, out, spans, last, ev, nones, m_params, m_where, m_result, m_pc,
          p_entry, p_tokens, position, p_result, p_pc, l_src, l_pos, l_out, l_lit, l_conv,
          t_source, t_offset, t_position, i_raw, i_build, i_parts>>

(***************************************************************************)
(* Bounds of the model.                                                    *)
(***************************************************************************)
MaxLines == 3       \* lines of a source text
MaxPairContext == 1 \* lines around the two lines a blank line is put between
MaxNone == 2        \* calls of next() answered None that a run goes on for
MaxParams == 2      \* entries of a generic-parameter list
MaxWhere == 2       \* entries of a where-clause
MaxDigits == 3      \* characters of the digit part of a generated number lexeme
MaxTokens == 5      \* tokens of a token stream handed to the parser
MaxWords == 4       \* words of a source text handed to the parser
MaxChars == 4       \* characters of a text whose positions are computed
MaxPairLines == 2   \* lines of the texts of two lexers run together
MaxRaw == 6         \* characters of the content of an interpolated string

Inst == {1, 2}

\* No call of position_from_source and none of parse_interp_parts.
NoPosition == <<0, 0>>
NoParts == [k |-> "none", v |-> <<>>, underflow |-> FALSE]

TextIdle ==
    /\ t_source = <<>>
    /\ t_offset = 0
    /\ t_position = NoPosition
    /\ i_raw = <<>>
    /\ i_build = "debug"
    /\ i_parts = NoParts

(***************************************************************************)
(* Source texts.                                                           *)
(***************************************************************************)
SP == " "
TAB == "\t"
NL == "\n"
CR == "\r"

Sp(n) == [k \in 1..n |-> SP]

\* The lines source texts are made of: widths 0, 2, 4 (spaces and tab), 6, 8,
\* 9 and 12, one or two tokens, an unlexable character, and empty,
\* whitespace-only and comment-only lines.
LineSet ==
    { <<"a">>,
      Sp(2) \o <<"a">>,
      Sp(4) \o <<"a", SP, "a">>,
      <<TAB, "a">>,
      Sp(6) \o <<"a">>,
      Sp(8) \o <<"a">>,
      <<TAB, SP, TAB, "/">>,
      Sp(12) \o <<"a">>,
      <<>>,
      Sp(3),
      Sp(6) \o <<"/", "/", "a">>,
      Sp(4) \o <<"$", "a">> }

\* The lines that hold no token: empty, whitespace only, comment only.
BlankLineSet ==
    { <<>>, Sp(3), <<TAB>>, <<"/", "/">>, Sp(5) \o <<"/", "/", SP, "a">> }

RECURSIVE Join(_)
Join(ls) ==
    IF Len(ls) = 0 THEN <<>>
    ELSE IF Len(ls) = 1 THEN ls[1]
    ELSE ls[1] \o <<NL>> \o Join(Tail(ls))

LineSeqs(n) == UNION { [1..k -> LineSet] : k \in 0..n }

Sources == { Join(ls) : ls \in LineSeqs(MaxLines) }

(***************************************************************************)
(* Text helpers.                                                           *)
(***************************************************************************)
Digit == {"0", "1", "2", "3", "4", "5", "6", "7", "8", "9"}
BinDigit == {"0", "1"}
OctDigit == {"0", "1", "2", "3", "4", "5", "6", "7"}
HexLetter == {"a", "b", "c", "d", "e", "f", "A", "B", "C", "D", "E", "F"}
HexDigit == Digit \cup HexLetter
Letter ==
    { "a", "b", "c", "d", "e", "f", "g", "h", "i", "j", "k", "l", "m",
      "n", "o", "p", "q", "r", "s", "t", "u", "v", "w", "x", "y", "z",
      "A", "B", "C", "D", "E", "F", "G", "H", "I", "J", "K", "L", "M",
      "N", "O", "P", "Q", "R", "S", "T", "U", "V", "W", "X", "Y", "Z" }

Times(c, n) == [k \in 1..n |-> c]

\* str.ends_with and str.starts_with at offset p.
EndsWith(raw, suf) ==
    /\ Len(suf) <= Len(raw)
    /\ SubSeq(raw, Len(raw) - Len(suf) + 1, Len(raw)) = suf

StartsWith(source, p, pre) ==
    /\ p + Len(pre) <= Len(source)
    /\ \A k \in 1..Len(pre) : source[p + k] = pre[k]

\* str.replace('_', "").
RemoveUnderscores(str) == SelectSeq(str, LAMBDA c : c # "_")

\* The first index of a character of set in str, or 0: str.find.
Find(str, set) ==
    IF \E k \in DOMAIN str : str[k] \in set
    THEN CHOOSE k \in DOMAIN str :
             str[k] \in set /\ \A j \in 1..(k - 1) : str[j] \notin set
    ELSE 0

(***************************************************************************)
(* Integer literals (crates/nyx-lexer/src/integer.rs).                     *)
(***************************************************************************)
\* const SUFFIXES of parse_integer, in its order, with IntegerSuffix::from.
SUFFIXES ==
    << [text |-> <<"u", "8">>, suffix |-> "U8"],
       [text |-> <<"u", "1", "6">>, suffix |-> "U16"],
       [text |-> <<"u", "3", "2">>, suffix |-> "U32"],
       [text |-> <<"u", "6", "4">>, suffix |-> "U64"],
       [text |-> <<"i", "8">>, suffix |-> "I8"],
       [text |-> <<"i", "1", "6">>, suffix |-> "I16"],
       [text |-> <<"i", "3", "2">>, suffix |-> "I32"],
       [text |-> <<"i", "6", "4">>, suffix |-> "I64"],
       [text |-> <<"u", "s", "i", "z", "e">>, suffix |-> "USize"],
       [text |-> <<"i", "s", "i", "z", "e">>, suffix |-> "ISize"] >>

NoSuffix == "None"

\* SUFFIXES.iter().find(|suf| raw.ends_with(suf)): the index of the first
\* entry of the table raw ends with, or 0.
FindSuffix(table, raw) ==
    IF \E k \in DOMAIN table : EndsWith(raw, table[k].text)
    THEN CHOOSE k \in DOMAIN table :
             /\ EndsWith(raw, table[k].text)
             /\ \A j \in 1..(k - 1) : ~EndsWith(raw, table[j].text)
    ELSE 0

IntegerLiteral(base, digits, suffix) ==
    [base |-> base, digits |-> digits, suffix |-> suffix]

InvalidInteger(span, reason) ==
    [variant |-> "InvalidInteger", span |-> span, reason |-> reason]

\* parse_integer with the underscores left in the digits.
parse_integer_KeepsUnderscores(raw, span) ==
    LET literal(base, digits, suffix) ==
            [k |-> "Ok", v |-> IntegerLiteral(base, digits, suffix)]
        rest(number_part) == SubSeq(number_part, 3, Len(number_part))
        based(number_part, suffix) ==
            IF StartsWith(number_part, 0, <<"0", "b">>)
            THEN literal("Binary", rest(number_part), suffix)
            ELSE IF StartsWith(number_part, 0, <<"0", "o">>)
            THEN literal("Octal", rest(number_part), suffix)
            ELSE IF StartsWith(number_part, 0, <<"0", "x">>)
            THEN literal("Hex", rest(number_part), suffix)
            ELSE literal("Decimal", number_part, suffix)
        suffixed(k) ==
            IF k # 0
            THEN based(SubSeq(raw, 1, Len(raw) - Len(SUFFIXES[k].text)), SUFFIXES[k].suffix)
            ELSE based(raw, NoSuffix)
    IN  suffixed(FindSuffix(SUFFIXES, raw))

\* parse_integer on the slice raw of a lexeme at span.
parse_integer(raw, span) ==
    LET literal(base, cleaned_digits, suffix) ==
            IF Len(cleaned_digits) = 0
            THEN [k |-> "Err",
                  v |-> InvalidInteger(span, "integer literal cannot be empty")]
            ELSE [k |-> "Ok", v |-> IntegerLiteral(base, cleaned_digits, suffix)]
        cleaned(base, digits, suffix) == literal(base, RemoveUnderscores(digits), suffix)
        rest(number_part) == SubSeq(number_part, 3, Len(number_part))
        based(number_part, suffix) ==
            IF StartsWith(number_part, 0, <<"0", "b">>)
            THEN cleaned("Binary", rest(number_part), suffix)
            ELSE IF StartsWith(number_part, 0, <<"0", "o">>)
            THEN cleaned("Octal", rest(number_part), suffix)
            ELSE IF StartsWith(number_part, 0, <<"0", "x">>)
            THEN cleaned("Hex", rest(number_part), suffix)
            ELSE cleaned("Decimal", number_part, suffix)
        suffixed(k) ==
            IF k # 0
            THEN based(SubSeq(raw, 1, Len(raw) - Len(SUFFIXES[k].text)), SUFFIXES[k].suffix)
            ELSE based(raw, NoSuffix)
    IN  suffixed(FindSuffix(SUFFIXES, raw))

\* A natural number is kept as its numeral in the radix it was written in:
\* the values of its digits, most significant first, without leading zeros
\* (<<0>> is zero).
Numeral(values) ==
    LET nz == { k \in DOMAIN values : values[k] # 0 } IN
    IF nz = {} THEN <<0>>
    ELSE SubSeq(values, CHOOSE k \in nz : \A j \in nz : k <= j, Len(values))

NumLess(a, b) ==
    \/ Len(a) < Len(b)
    \/ /\ Len(a) = Len(b)
       /\ \E k \in DOMAIN a :
              /\ a[k] < b[k]
              /\ \A j \in 1..(k - 1) : a[j] = b[j]

\* u32::MAX in radix 10, and u64::MAX in the radix of each Base.
U32Max == <<4, 2, 9, 4, 9, 6, 7, 2, 9, 5>>

U64Max(radix) ==
    CASE radix = 2 -> Times(1, 64)
      [] radix = 8 -> <<1>> \o Times(7, 21)
      [] radix = 10 -> <<1, 8, 4, 4, 6, 7, 4, 4, 0, 7, 3, 7, 0, 9, 5, 5, 1, 6, 1, 5>>
      [] radix = 16 -> Times(15, 16)

\* char::to_digit(radix): the digit's value, or -1 for None.
DigitChars ==
    <<"0", "1", "2", "3", "4", "5", "6", "7", "8", "9", "a", "b", "c", "d", "e", "f">>
UpperDigitChars ==
    <<"0", "1", "2", "3", "4", "5", "6", "7", "8", "9", "A", "B", "C", "D", "E", "F">>

to_digit(c, radix) ==
    LET hits == { k \in 1..radix : DigitChars[k] = c \/ UpperDigitChars[k] = c } IN
    IF hits = {} THEN -1 ELSE (CHOOSE k \in hits : TRUE) - 1

ParseOk(v) == [k |-> "Ok", v |-> v]
ParseIntError(kind) == [k |-> "Err", v |-> kind]

\* from_str_radix of an unsigned type whose greatest value is max.  Its loop
\* reads the digits from the left, ending with InvalidDigit at a character
\* that is no digit of the radix and with PosOverflow at a digit that takes
\* the value above max, whichever comes first.
from_str_radix(src, radix, max) ==
    LET result(value, bad) ==
            IF NumLess(max, value) THEN ParseIntError("PosOverflow")
            ELSE IF bad THEN ParseIntError("InvalidDigit")
            ELSE ParseOk(value)
        read(values, bad) ==
            result(Numeral(SubSeq(values, 1,
                                  IF bad = {} THEN Len(values)
                                  ELSE (CHOOSE k \in bad : \A j \in bad : k <= j) - 1)),
                   bad # {})
        loop(values) == read(values, { k \in DOMAIN values : values[k] = -1 })
        digits(text) == loop([k \in DOMAIN text |-> to_digit(text[k], radix)])
    IN  IF Len(src) = 0 THEN ParseIntError("Empty")
        ELSE IF Len(src) = 1 /\ src[1] \in {"+", "-"} THEN ParseIntError("InvalidDigit")
        ELSE IF src[1] = "+" THEN digits(Tail(src))
        ELSE digits(src)

\* as_u64 taking every literal for a decimal one.
as_u64_AlwaysDecimal(lit) == from_str_radix(lit.digits, 10, U64Max(10))

\* IntegerLiteral::as_u64.
as_u64(lit) ==
    LET radix == CASE lit.base = "Binary" -> 2
                   [] lit.base = "Octal" -> 8
                   [] lit.base = "Decimal" -> 10
                   [] lit.base = "Hex" -> 16
    IN  from_str_radix(lit.digits, radix, U64Max(radix))

\* impl From<ParseIntError> for LexicalError.
LexicalErrorFrom(err) ==
    LET reason == CASE err.v = "PosOverflow" -> "integer overflow (too large)"
                    [] err.v = "NegOverflow" -> "integer underflow (too small)"
                    [] err.v = "InvalidDigit" -> "invalid digit in integer literal"
                    [] OTHER -> "failed to parse integer"
    IN  InvalidInteger(<<0, 0>>, reason)

(***************************************************************************)
(* Float literals (src/lexer/float.rs).                                    *)
(***************************************************************************)
\* const SUFFIXES of parse_float, with FloatSuffix::from.
FLOAT_SUFFIXES ==
    << [text |-> <<"f", "3", "2">>, suffix |-> "F32"],
       [text |-> <<"f", "6", "4">>, suffix |-> "F64"] >>

FloatExponent(kind, val) == [kind |-> kind, val |-> val]
NoExponent == FloatExponent("None", <<>>)

FloatLiteral(digits, exponent, suffix) ==
    [digits |-> digits, exponent |-> exponent, suffix |-> suffix]

NoFloat == [k |-> "None", v |-> <<>>]

\* parse_float with the underscores of the exponent left where they are.
ExponentOf_KeepsUnderscores(exp_str) ==
    LET parsed(kind, val) ==
            IF val.k = "Err" THEN NoFloat
            ELSE [k |-> "Some", v |-> FloatExponent(kind, val.v)]
        number(text) == from_str_radix(text, 10, U32Max)
    IN  CASE exp_str[1] = "+" -> parsed("Positive", number(Tail(exp_str)))
          [] exp_str[1] = "-" -> parsed("Negative", number(Tail(exp_str)))
          [] exp_str[1] \in Digit -> parsed("Unsigned", number(exp_str))
          [] OTHER -> NoFloat

\* The arms of match sign: the exponent, or NoFloat where the arm returns None.
ExponentOf(exp_str) ==
    LET parsed(kind, val) ==
            IF val.k = "Err" THEN NoFloat
            ELSE [k |-> "Some", v |-> FloatExponent(kind, val.v)]
        number(text) == from_str_radix(RemoveUnderscores(text), 10, U32Max)
    IN  CASE exp_str[1] = "+" -> parsed("Positive", number(Tail(exp_str)))
          [] exp_str[1] = "-" -> parsed("Negative", number(Tail(exp_str)))
          [] exp_str[1] \in Digit -> parsed("Unsigned", number(exp_str))
          [] OTHER -> NoFloat

\* parse_float on the slice raw of a lexeme.
parse_float(raw) ==
    LET literal(digits, exp, suffix) ==
            IF exp.k = "None" THEN NoFloat
            ELSE [k |-> "Some", v |-> FloatLiteral(digits, exp.v, suffix)]
        split(number_part, e_idx, suffix) ==
            IF e_idx = 0
            THEN [k |-> "Some", v |-> FloatLiteral(number_part, NoExponent, suffix)]
            ELSE IF e_idx = Len(number_part) THEN NoFloat
            ELSE literal(SubSeq(number_part, 1, e_idx - 1),
                         ExponentOf(SubSeq(number_part, e_idx + 1, Len(number_part))),
                         suffix)
        parts(number_part, suffix) ==
            split(number_part, Find(number_part, {"e", "E"}), suffix)
        suffixed(k) ==
            IF k # 0
            THEN parts(SubSeq(raw, 1, Len(raw) - Len(FLOAT_SUFFIXES[k].text)),
                       FLOAT_SUFFIXES[k].suffix)
            ELSE parts(raw, NoSuffix)
    IN  suffixed(FindSuffix(FLOAT_SUFFIXES, raw))

(***************************************************************************)
(* The raw token lexer: the Logos rules of enum Token that the characters  *)
(* of the model's texts can match (spaces and tabs skipped, line comments  *)
(* skipped, Newline, the keywords of the primitive number types, Ident,    *)
(* Underscore, FloatLiteral, IntegerLiteral, Dot, Slash, Plus, Star,       *)
(* Bang); the longest match wins, a keyword wins over Ident, and a         *)
(* character no rule matches gives an error item.                          *)
(***************************************************************************)
Tok(t, s) == [k |-> "Ok", t |-> t, s |-> s]
ErrItem == [k |-> "Err", t |-> "Err", s |-> <<>>]
NoneItem == [k |-> "None", t |-> "None", s |-> <<>>]

Newline == Tok("Newline", <<>>)
Indent == Tok("Indent", <<>>)
Dedent == Tok("Dedent", <<>>)

\* The character at offset o, or "" at the end of the text.
At(source, o) == IF o < Len(source) THEN source[o + 1] ELSE ""

\* The offset of the next "\n" at or after p, or the end of the text.
RECURSIVE LineEnd(_, _)
LineEnd(source, p) ==
    IF p >= Len(source) \/ source[p + 1] = NL THEN p
    ELSE LineEnd(source, p + 1)

\* #[logos(skip r"[ \t]+")] and the skipped rule r"//[^\n]*".
RECURSIVE SkipTrivia(_, _)
SkipTrivia(source, p) ==
    IF p >= Len(source) THEN p
    ELSE IF source[p + 1] \in {SP, TAB} THEN SkipTrivia(source, p + 1)
    ELSE IF source[p + 1] = "/" /\ p + 1 < Len(source) /\ source[p + 2] = "/"
         THEN SkipTrivia(source, LineEnd(source, p))
    ELSE p

Max(set) == CHOOSE x \in set : \A y \in set : y <= x

\* The end of the longest run of characters of set starting at p.
Run(source, p, set) ==
    CHOOSE e \in p..Len(source) :
        /\ e = Len(source) \/ source[e + 1] \notin set
        /\ \A k \in (p + 1)..e : source[k] \in set

\* An optional group (a|b|...) of a pattern at p: the end of the entry of
\* table found there, or p.
OptionalSuffix(source, p, table) ==
    LET hits == { k \in DOMAIN table : StartsWith(source, p, table[k].text) } IN
    IF hits = {} THEN p
    ELSE p + Len(table[CHOOSE k \in hits :
                           \A j \in hits : Len(table[j].text) <= Len(table[k].text)].text)

\* [0-9][_0-9]*(i8|...|usize)?: the end of the match at p, or p.
MatchDecimal(source, p) ==
    IF At(source, p) \in Digit
    THEN OptionalSuffix(source, Run(source, p + 1, Digit \cup {"_"}), SUFFIXES)
    ELSE p

\* 0b[01][_01]*(...)?, 0o_?[0-7][_0-7]*(...)? and
\* 0x_?[0-9a-fA-F][_0-9a-fA-F]*(...)?: the end of the match at p, or p.
MatchRadix(source, p, letter, digits, underscore) ==
    LET q == IF underscore /\ At(source, p + 2) = "_" THEN p + 3 ELSE p + 2 IN
    IF At(source, p) = "0" /\ At(source, p + 1) = letter /\ At(source, q) \in digits
    THEN OptionalSuffix(source, Run(source, q + 1, digits \cup {"_"}), SUFFIXES)
    ELSE p

\* e[+-]?[0-9][_0-9]* at p: the end of the match, or p.
MatchExponent(source, p) ==
    LET q == IF At(source, p + 1) \in {"+", "-"} THEN p + 2 ELSE p + 1 IN
    IF At(source, p) = "e" /\ At(source, q) \in Digit
    THEN Run(source, q + 1, Digit \cup {"_"})
    ELSE p

\* The patterns of FloatLiteral with the digits after the point optional.
MatchFloat_BarePoint(source, p) ==
    LET exponent(e1, e3) ==
            IF e3 > e1 THEN OptionalSuffix(source, e3, FLOAT_SUFFIXES) ELSE p
        point(e1) ==
            IF At(source, e1) = "."
            THEN OptionalSuffix(source,
                                MatchExponent(source, Run(source, e1 + 1, Digit \cup {"_"})),
                                FLOAT_SUFFIXES)
            ELSE exponent(e1, MatchExponent(source, e1))
    IN  IF At(source, p) \notin Digit THEN p
        ELSE point(Run(source, p + 1, Digit \cup {"_"}))

\* The two patterns of FloatLiteral: the end of the match at p, or p.
MatchFloat(source, p) ==
    LET exponent(e1, e3) ==
            IF e3 > e1 THEN OptionalSuffix(source, e3, FLOAT_SUFFIXES) ELSE p
        point(e1) ==
            IF At(source, e1) = "." /\ At(source, e1 + 1) \in Digit
            THEN OptionalSuffix(source,
                                MatchExponent(source, Run(source, e1 + 2, Digit \cup {"_"})),
                                FLOAT_SUFFIXES)
            ELSE exponent(e1, MatchExponent(source, e1))
    IN  IF At(source, p) \notin Digit THEN p
        ELSE point(Run(source, p + 1, Digit \cup {"_"}))

MatchInteger(source, p) ==
    Max({ MatchDecimal(source, p),
          MatchRadix(source, p, "b", BinDigit, FALSE),
          MatchRadix(source, p, "o", OctDigit, TRUE),
          MatchRadix(source, p, "x", HexDigit, TRUE) })

\* The keyword tokens of the primitive number types.
Keywords == SUFFIXES \o FLOAT_SUFFIXES

\* [a-zA-Z][a-zA-Z0-9_]*|_[a-zA-Z0-9_]+ : the end of the match at p, or p.
MatchIdent(source, p) ==
    LET cont == Letter \cup Digit \cup {"_"} IN
    IF At(source, p) \in Letter \/ (At(source, p) = "_" /\ At(source, p + 1) \in cont)
    THEN Run(source, p + 1, cont)
    ELSE p

\* An item with its span and the offset behind it.
Spanned(item, p, e) == [item |-> item, span |-> <<p, e>>, pos |-> e]

\* The items of the callbacks' results: Some or Ok gives the token, None or
\* Err an error item.
FloatItem(f) == IF f.k = "Some" THEN Tok("FloatLiteral", f.v) ELSE ErrItem

IntegerItem(n) ==
    IF n.k = "Ok" THEN Tok("IntegerLiteral", n.v) ELSE [k |-> "Err", t |-> "Err", s |-> n.v]

\* The longer of the float match to fe and the integer match to ie.
NumberToken(source, p, fe, ie) ==
    IF fe > ie
    THEN Spanned(FloatItem(parse_float(SubSeq(source, p + 1, fe))), p, fe)
    ELSE Spanned(IntegerItem(parse_integer(SubSeq(source, p + 1, ie), <<p, ie>>)), p, ie)

\* The token of a number match: the callback's literal, or its error.
NumberItem(source, p) ==
    NumberToken(source, p, MatchFloat(source, p), MatchInteger(source, p))

\* The token of an identifier match: a keyword, or Ident.
WordItem(source, p) ==
    LET token(slice, hits) ==
            IF hits # {} THEN Tok(Keywords[CHOOSE k \in hits : TRUE].suffix, <<>>)
            ELSE Tok("Ident", slice)
        keyword(slice) ==
            token(slice, { k \in DOMAIN Keywords : Keywords[k].text = slice })
        word(e) == [item |-> keyword(SubSeq(source, p + 1, e)), span |-> <<p, e>>, pos |-> e]
    IN  word(MatchIdent(source, p))

\* The token that starts at offset p, where no skipped text starts.
RawAt(source, p) ==
    IF p >= Len(source) THEN Spanned(NoneItem, p, p)
    ELSE IF At(source, p) = NL THEN Spanned(Newline, p, p + 1)
    ELSE IF At(source, p) \in Digit THEN NumberItem(source, p)
    ELSE IF MatchIdent(source, p) > p THEN WordItem(source, p)
    ELSE IF At(source, p) = "_" THEN Spanned(Tok("Underscore", <<>>), p, p + 1)
    ELSE IF At(source, p) = "." THEN Spanned(Tok("Dot", <<>>), p, p + 1)
    ELSE IF At(source, p) = "/" THEN Spanned(Tok("Slash", <<>>), p, p + 1)
    ELSE IF At(source, p) = "+" THEN Spanned(Tok("Plus", <<>>), p, p + 1)
    ELSE IF At(source, p) = "*" THEN Spanned(Tok("Star", <<>>), p, p + 1)
    ELSE IF At(source, p) = "!" THEN Spanned(Tok("Bang", <<>>), p, p + 1)
    ELSE Spanned(ErrItem, p, p + 1)

\* logos::Lexer::next from offset pos: the item, its span and the new offset.
RawNext(source, pos) == RawAt(source, SkipTrivia(source, pos))

(***************************************************************************)
(* IndentLexer.                                                            *)
(***************************************************************************)
new(source) ==
    [source |-> source, pos |-> 0, span |-> <<0, 0>>,
     indent_stack |-> <<0>>, pending_tokens |-> <<>>,
     at_line_start |-> TRUE, last_was_newline |-> FALSE]

Top(stack) == stack[Len(stack)]
Pop(stack) == SubSeq(stack, 1, Len(stack) - 1)

\* The walk back from token_start to the byte after the previous "\n".
RECURSIVE LineStart(_, _)
LineStart(source, pos) ==
    IF pos > 0 /\ source[pos] # NL THEN LineStart(source, pos - 1) ELSE pos

TabWidth == 4
IndentUnit == 4

\* The counting loop of calculate_line_indentation, from byte i on.
RECURSIVE CountIndent(_, _, _)
CountIndent(source, i, token_start) ==
    IF i >= token_start THEN 0
    ELSE IF source[i + 1] = SP THEN 1 + CountIndent(source, i + 1, token_start)
    ELSE IF source[i + 1] = TAB THEN TabWidth + CountIndent(source, i + 1, token_start)
    ELSE 0

\* calculate_line_indentation with a tab counted as one column.
calculate_line_indentation_TabAsOne(source, token_start) ==
    LET pos == LineStart(source, token_start)
        run == { e \in pos..token_start :
                   \A k \in (pos + 1)..e : source[k] \in {SP, TAB} }
        end == CHOOSE e \in run : \A f \in run : f <= e
    IN  end - pos

calculate_line_indentation(source, token_start) ==
    CountIndent(source, LineStart(source, token_start), token_start)

is_blank_or_comment_line(source, token_start) ==
    LET pos == LineStart(source, token_start) IN
    /\ \A k \in (pos + 1)..token_start : source[k] \in {SP, TAB}
    /\ \/ StartsWith(source, token_start, <<NL>>)
       \/ StartsWith(source, token_start, <<"/", "/">>)

\* The dedent loop with the test level < indent_level: a level equal to the
\* line's width is popped too.
RECURSIVE PopAbove_Strict(_, _)
PopAbove_Strict(stack, indent_level) ==
    IF Len(stack) <= 1 \/ stack[Len(stack)] < indent_level THEN stack
    ELSE PopAbove_Strict(SubSeq(stack, 1, Len(stack) - 1), indent_level)

\* The while loop of the dedent branch: pop the levels above indent_level.
RECURSIVE PopAbove(_, _)
PopAbove(stack, indent_level) ==
    IF Len(stack) = 0 \/ Top(stack) <= indent_level THEN stack
    ELSE PopAbove(Pop(stack), indent_level)

\* handle_indentation opening a single level for any increase of the width.
handle_indentation_OneLevel(stack, source, token_start) ==
    LET indent_level == calculate_line_indentation(source, token_start)
        current_indent == Top(stack)
    IN  IF indent_level >= current_indent + IndentUnit
        THEN [stack |-> Append(stack, current_indent + IndentUnit), tokens |-> <<Indent>>]
        ELSE IF indent_level < current_indent
        THEN LET popped == PopAbove(stack, indent_level) IN
             [stack |-> popped,
              tokens |-> [k \in 1..(Len(stack) - Len(popped)) |-> Dedent]]
        ELSE [stack |-> stack, tokens |-> <<>>]

\* handle_indentation: the new stack and the layout tokens to emit.
handle_indentation(stack, source, token_start) ==
    LET indent_level == calculate_line_indentation(source, token_start)
        current_indent == Top(stack)
    IN  IF indent_level > current_indent
        THEN LET num_indents == (indent_level - current_indent) \div IndentUnit IN
             [stack |-> stack \o [k \in 1..num_indents |-> current_indent + k * IndentUnit],
              tokens |-> [k \in 1..num_indents |-> Indent]]
        ELSE IF indent_level < current_indent
        THEN LET popped == PopAbove(stack, indent_level) IN
             [stack |-> popped,
              tokens |-> [k \in 1..(Len(stack) - Len(popped)) |-> Dedent]]
        ELSE [stack |-> stack, tokens |-> <<>>]

\* The pending arm taking the token queued last.
OnPending_Last(st) ==
    [st |-> [st EXCEPT !.pending_tokens = SubSeq(st.pending_tokens, 1, Len(st.pending_tokens) - 1)],
     item |-> st.pending_tokens[Len(st.pending_tokens)], branch |-> "pending"]

\* next(), pending queue not empty: return its head.
OnPending(st) ==
    [st |-> [st EXCEPT !.pending_tokens = Tail(st.pending_tokens)],
     item |-> Head(st.pending_tokens), branch |-> "pending"]

\* The Newline arm evaluating the coming line's indentation at once.
OnNewline_Eager(st, r) ==
    LET e == SkipTrivia(st.source, r.pos)
        h == handle_indentation(st.indent_stack, st.source, e)
    IN  [st |-> [st EXCEPT !.pos = r.pos, !.span = r.span,
                           !.indent_stack = h.stack,
                           !.pending_tokens = st.pending_tokens \o h.tokens,
                           !.last_was_newline = FALSE, !.at_line_start = TRUE],
         item |-> Newline, branch |-> "newline"]

\* The Newline arm flipping the flag instead of setting it.
OnNewline_Toggle(st, r) ==
    [st |-> [st EXCEPT !.pos = r.pos, !.span = r.span,
                       !.last_was_newline = ~st.last_was_newline,
                       !.at_line_start = TRUE],
     item |-> Newline, branch |-> "newline"]

\* next(), Some(Ok(Token::Newline)).
OnNewline(st, r) ==
    [st |-> [st EXCEPT !.pos = r.pos, !.span = r.span,
                       !.last_was_newline = TRUE, !.at_line_start = TRUE],
     item |-> Newline, branch |-> "newline"]

\* The token arm without the push of the real token behind the layout tokens.
OnToken_DropsReal(st, r) ==
    LET token_start == r.span[1]
        pulled == [st EXCEPT !.pos = r.pos, !.span = r.span]
    IN  IF st.last_was_newline
        THEN LET cleared == [pulled EXCEPT !.last_was_newline = FALSE]
                 h == handle_indentation(st.indent_stack, st.source, token_start)
             IN  IF Len(h.tokens) > 0
                 THEN [st |-> [cleared EXCEPT
                                 !.indent_stack = h.stack,
                                 !.pending_tokens = st.pending_tokens \o Tail(h.tokens)],
                       item |-> h.tokens[1], branch |-> "layout"]
                 ELSE [st |-> cleared, item |-> r.item, branch |-> "evaluated"]
        ELSE [st |-> pulled, item |-> r.item, branch |-> "token"]

\* The token arm queueing every layout token, the one it returns included.
OnToken_RequeuesFirst(st, r) ==
    LET token_start == r.span[1]
        pulled == [st EXCEPT !.pos = r.pos, !.span = r.span]
    IN  IF st.last_was_newline
        THEN LET cleared == [pulled EXCEPT !.last_was_newline = FALSE] IN
             IF ~is_blank_or_comment_line(st.source, token_start)
             THEN LET h == handle_indentation(st.indent_stack, st.source, token_start) IN
                  IF Len(h.tokens) > 0
                  THEN [st |-> [cleared EXCEPT
                                  !.indent_stack = h.stack,
                                  !.pending_tokens =
                                      st.pending_tokens \o h.tokens \o <<r.item>>],
                        item |-> h.tokens[1], branch |-> "layout"]
                  ELSE [st |-> [cleared EXCEPT !.indent_stack = h.stack],
                        item |-> r.item, branch |-> "evaluated"]
             ELSE [st |-> cleared, item |-> r.item, branch |-> "blank"]
        ELSE [st |-> pulled, item |-> r.item, branch |-> "token"]

\* next(), Some(Ok(token)) for a token other than Newline.
OnToken(st, r) ==
    LET token_start == r.span[1]
        pulled == [st EXCEPT !.pos = r.pos, !.span = r.span]
    IN  IF st.last_was_newline
        THEN LET cleared == [pulled EXCEPT !.last_was_newline = FALSE] IN
             IF ~is_blank_or_comment_line(st.source, token_start)
             THEN LET h == handle_indentation(st.indent_stack, st.source, token_start) IN
                  IF Len(h.tokens) > 0
                  THEN [st |-> [cleared EXCEPT
                                  !.indent_stack = h.stack,
                                  !.pending_tokens =
                                      st.pending_tokens \o Tail(h.tokens) \o <<r.item>>],
                        item |-> h.tokens[1], branch |-> "layout"]
                  ELSE [st |-> [cleared EXCEPT !.indent_stack = h.stack],
                        item |-> r.item, branch |-> "evaluated"]
             ELSE [st |-> cleared, item |-> r.item, branch |-> "blank"]
        ELSE [st |-> pulled, item |-> r.item, branch |-> "token"]

\* next(), Some(Err(e)).
OnError(st, r) ==
    [st |-> [st EXCEPT !.pos = r.pos, !.span = r.span],
     item |-> r.item, branch |-> "error"]

\* The end-of-input arm without the flush.
OnEof_NoFlush(st, r) ==
    [st |-> [st EXCEPT !.pos = r.pos, !.span = r.span],
     item |-> NoneItem, branch |-> "none"]

\* The end-of-input arm closing every open level with a single Dedent.
OnEof_PopAll(st, r) ==
    IF Len(st.indent_stack) > 1
    THEN [st |-> [st EXCEPT !.pos = r.pos, !.span = r.span,
                            !.indent_stack = <<st.indent_stack[1]>>],
          item |-> Dedent, branch |-> "flush"]
    ELSE [st |-> [st EXCEPT !.pos = r.pos, !.span = r.span],
          item |-> NoneItem, branch |-> "none"]

\* The end-of-input arm popping whatever level is left, the base included.
OnEof_PopsBase(st, r) ==
    IF Len(st.indent_stack) > 0
    THEN [st |-> [st EXCEPT !.pos = r.pos, !.span = r.span,
                            !.indent_stack = Pop(st.indent_stack)],
          item |-> Dedent, branch |-> "flush"]
    ELSE [st |-> [st EXCEPT !.pos = r.pos, !.span = r.span],
          item |-> NoneItem, branch |-> "none"]

\* next(), None: one Dedent per call while a level is open.
OnEof(st, r) ==
    IF Len(st.indent_stack) > 1
    THEN [st |-> [st EXCEPT !.pos = r.pos, !.span = r.span,
                            !.indent_stack = Pop(st.indent_stack)],
          item |-> Dedent, branch |-> "flush"]
    ELSE [st |-> [st EXCEPT !.pos = r.pos, !.span = r.span],
          item |-> NoneItem, branch |-> "none"]

\* IndentLexer::next: the new fields, the item returned and the arm taken.
next(st) ==
    IF Len(st.pending_tokens) > 0 THEN OnPending(st)
    ELSE CHOOSE c \in
             { IF r.item = Newline THEN OnNewline(st, r)
               ELSE IF r.item.k = "Ok" THEN OnToken(st, r)
               ELSE IF r.item.k = "Err" THEN OnError(st, r)
               ELSE OnEof(st, r) : r \in {RawNext(st.source, st.pos)} } : TRUE

(***************************************************************************)
(* The state machine of the lexer: each action is a call of next() on an   *)
(* instance, one action per arm of next().  out, spans, last, ev and nones *)
(* record what the calls did; the lexer reads none of them.                *)
(***************************************************************************)
Idle == new(<<>>)

NoCall == [branch |-> "init", item |-> NoneItem, before |-> Idle]

NoEval == [set |-> FALSE, before |-> Idle, tok |-> NoneItem, token_start |-> 0, idx |-> 0]

LexInit(lexers) ==
    /\ lx = [i \in Inst |-> lexers[i]]
    /\ out = [i \in Inst |-> <<>>]
    /\ spans = [i \in Inst |-> <<>>]
    /\ last = [i \in Inst |-> NoCall]
    /\ ev = [i \in Inst |-> NoEval]
    /\ nones = [i \in Inst |-> 0]

\* The fields after a call on instance i that also writes its indent stack
\* into the other instance.
Store_SharedStack(i, st) ==
    [j \in Inst |-> IF j = i THEN st ELSE [lx[j] EXCEPT !.indent_stack = st.indent_stack]]

\* The fields after a call on instance i: the fields of a lexer belong to
\* that lexer alone.
Store(i, st) == [lx EXCEPT ![i] = st]

\* A call of next() on instance i, in what it does to the lexer.
Pull(i) ==
    /\ i \in active
    /\ inorder /\ i = 2 => nones[1] > 0
    /\ nones[i] < MaxNone
    /\ \E c \in {next(lx[i])}, r \in {RawNext(lx[i].source, lx[i].pos)} :
           /\ lx' = Store(i, c.st)
           /\ out' = [out EXCEPT ![i] = Append(@, c.item)]
           /\ spans' = [spans EXCEPT ![i] = Append(@, c.st.span)]
           /\ last' = [last EXCEPT ![i] =
                        [branch |-> c.branch, item |-> c.item, before |-> lx[i]]]
           /\ ev' = [ev EXCEPT ![i] =
                        IF c.branch \in {"layout", "evaluated"}
                        THEN [set |-> TRUE, before |-> lx[i], tok |-> r.item,
                              token_start |-> r.span[1], idx |-> Len(out[i])]
                        ELSE @]
           /\ nones' = [nones EXCEPT ![i] = IF c.item = NoneItem THEN @ + 1 ELSE @]
    /\ UNCHANGED <<active, inorder>>

\* A call of next() on instance i by a caller that keeps nothing else.
Call(i) == Pull(i) /\ UNCHANGED <<mergeVars, parseVars, litVars, textVars>>

\* next() returns the head of the pending queue.
EmitPending(i) == next(lx[i]).branch = "pending" /\ Call(i)
\* next() pulls a Newline.
PullNewline(i) == next(lx[i]).branch = "newline" /\ Call(i)
\* next() pulls the first token after a Newline.
PullLineStart(i) == next(lx[i]).branch \in {"layout", "evaluated", "blank"} /\ Call(i)
\* next() pulls any other token.
PullToken(i) == next(lx[i]).branch = "token" /\ Call(i)
\* next() pulls an error item.
PullError(i) == next(lx[i]).branch = "error" /\ Call(i)
\* next() finds the raw lexer exhausted and pops a level.
FlushDedent(i) == next(lx[i]).branch = "flush" /\ Call(i)
\* next() finds the raw lexer exhausted and the stack at its base.
ReturnNone(i) == next(lx[i]).branch = "none" /\ Call(i)

LexNext(i) ==
    \/ EmitPending(i)
    \/ PullNewline(i)
    \/ PullLineStart(i)
    \/ PullToken(i)
    \/ PullError(i)
    \/ FlushDedent(i)
    \/ ReturnNone(i)

(***************************************************************************)
(* merge_where_clause (crates/fig-parser/src/ast.rs).  A type is a name;   *)
(* an absent default type is NoType.                                       *)
(***************************************************************************)
NoType == "None"

TypeParam(name, bounds, default_type) ==
    [kind |-> "Type", name |-> name, bounds |-> bounds, default_type |-> default_type]

ConstParam(name, ty) == [kind |-> "Const", name |-> name, ty |-> ty]

\* The body of the loop with the where-clause bounds put in front.
MergeConstraint_Prepend(params, constraint) ==
    IF constraint.kind = "Type"
    THEN LET hits == { k \in DOMAIN params :
                         params[k].kind = "Type" /\ params[k].name = constraint.name }
         IN  IF hits # {}
             THEN LET k == CHOOSE h \in hits : \A g \in hits : h <= g IN
                  [params EXCEPT ![k].bounds = constraint.bounds \o @]
             ELSE Append(params, TypeParam(constraint.name, constraint.bounds, NoType))
    ELSE params

\* The body of the loop with a new entry put in front of the list.
MergeConstraint_PushFront(params, constraint) ==
    IF constraint.kind = "Type"
    THEN LET hits == { k \in DOMAIN params :
                         params[k].kind = "Type" /\ params[k].name = constraint.name }
         IN  IF hits # {}
             THEN LET k == CHOOSE h \in hits : \A g \in hits : h <= g IN
                  [params EXCEPT ![k].bounds = @ \o constraint.bounds]
             ELSE <<TypeParam(constraint.name, constraint.bounds, NoType)>> \o params
    ELSE params

\* The body of the loop: one entry of the where-clause folded into params.
MergeConstraint(params, constraint) ==
    IF constraint.kind = "Type"
    THEN LET hits == { k \in DOMAIN params :
                         params[k].kind = "Type" /\ params[k].name = constraint.name }
         IN  IF hits # {}
             THEN LET k == CHOOSE h \in hits : \A g \in hits : h <= g IN
                  [params EXCEPT ![k].bounds = @ \o constraint.bounds]
             ELSE Append(params, TypeParam(constraint.name, constraint.bounds, NoType))
    ELSE params

RECURSIVE merge_where_clause(_, _)
merge_where_clause(params, where_clause) ==
    IF Len(where_clause) = 0 THEN params
    ELSE merge_where_clause(MergeConstraint(params, Head(where_clause)),
                            Tail(where_clause))

ParamNames == {"T", "N"}

\* The parameters a header is made of, and the entries of a where-clause.
HeaderParams ==
    { TypeParam(n, b, d) : n \in ParamNames, b \in {<<>>, <<"Clone">>},
                           d \in {NoType, "i32"} }
    \cup { ConstParam(n, "usize") : n \in ParamNames }

WhereEntries ==
    { TypeParam(n, b, NoType) : n \in ParamNames, b \in {<<"Send">>, <<"Sync">>} }
    \cup { ConstParam("N", "usize") }

SeqsUpTo(S, n) == UNION { [1..k -> S] : k \in 0..n }

\* A call of merge_where_clause.
Merge ==
    /\ m_pc = "start"
    /\ m_result' = merge_where_clause(m_params, m_where)
    /\ m_pc' = "done"
    /\ UNCHANGED <<m_params, m_where>>
    /\ UNCHANGED <<lexVars, parseVars, litVars, textVars>>

MergeIdle ==
    /\ m_params = <<>>
    /\ m_where = <<>>
    /\ m_result = <<>>
    /\ m_pc = "idle"

NoResult == [k |-> "none", v |-> <<>>]

ParseIdle ==
    /\ p_entry = "none"
    /\ p_tokens = <<>>
    /\ position = 0
    /\ p_result = NoResult
    /\ p_pc = "idle"

(***************************************************************************)
(* The syntax trees of crates/fig-parser/src/ast.rs that the grammar below *)
(* builds.  A Path is its segments; generic arguments are left out.        *)
(***************************************************************************)
Path(segments) == [segments |-> segments]

PrimitiveTypes ==
    {"U8", "U16", "U32", "U64", "USize", "I8", "I16", "I32", "I64", "ISize", "F32", "F64"}

Primitive(name) == [t |-> name]

TypePath(path) == [t |-> "Path", path |-> path]

Pointer(nullable, mutable, element_type) ==
    [t |-> "Pointer", nullable |-> nullable, mutable |-> mutable,
     element_type |-> element_type]

ErrorUnion(ok_type, err_type) ==
    [t |-> "ErrorUnion", ok_type |-> ok_type, err_type |-> err_type]

IntegerExpr(lit) == [e |-> "IntegerLiteral", v |-> lit]

PathExpr(path) == [e |-> "Path", v |-> path]

BinaryOp(lhs, op, rhs) == [e |-> "BinaryOp", lhs |-> lhs, op |-> op, rhs |-> rhs]

UnaryOp(op, operand) == [e |-> "UnaryOp", op |-> op, operand |-> operand]

Cast(expr, target_type) == [e |-> "Cast", expr |-> expr, target_type |-> target_type]

\* BinaryOperator and UnaryOperator, by the token of the operator.
BinaryOperator ==
    [Plus |-> "Add", Minus |-> "Subtract", Star |-> "Multiply", Slash |-> "Divide",
     Percent |-> "Modulo"]

UnaryOperator ==
    [Bang |-> "LogicalNot", Tilde |-> "BitwiseNot", Minus |-> "Negate", Plus |-> "Plus",
     And |-> "AddressOf", Star |-> "Dereference"]

(***************************************************************************)
(* The parser-facing Lexer's items (crates/fig-parser/src/lib.rs) and the  *)
(* outcome of a parse.                                                     *)
(***************************************************************************)
\* Ok((start, token, end)) and Err(error).
LexerOk(start, token, end) == [k |-> "Ok", start |-> start, token |-> token, end |-> end]

\* LexicalError::InvalidToken, the only variant: it has no field.
InvalidToken == [reason |-> "InvalidToken"]

LexerErr(error) == [k |-> "Err", start |-> -1, token |-> ErrItem, end |-> -1, error |-> error]

\* The parser's errors: the unexpected token with its span, the unexpected
\* end of input, and the error item of the token stream.
UnrecognizedToken(item) == [k |-> "Err", v |-> [kind |-> "UnrecognizedToken", token |-> item]]

UnrecognizedEof == [k |-> "Err", v |-> [kind |-> "UnrecognizedEof"]]

User(error) == [k |-> "Err", v |-> [kind |-> "User", error |-> error]]

ParsedOk(tree) == [k |-> "Ok", v |-> tree]

(***************************************************************************)
(* The grammar of type expressions and of expressions down from the        *)
(* additive level, as recursive descent over the items taken so far.  A    *)
(* step returns the tree and the index of the next item, or the index of   *)
(* the item it cannot take (one past the last item: the end of the input). *)
(***************************************************************************)
POk(v, pos) == [k |-> "Ok", v |-> v, pos |-> pos]

PErr(pos) == [k |-> "Err", v |-> <<>>, pos |-> pos]

\* The kind of the token of item i.
Kind(tokens, i) == IF i <= Len(tokens) THEN tokens[i].token.t ELSE "EOF"

\* A path: one Ident.
ParsePath(tokens, i) ==
    IF Kind(tokens, i) = "Ident" THEN POk(Path(<<tokens[i].token.s>>), i + 1) ELSE PErr(i)

\* ('!' Path)? behind the type r.
ErrorUnionOf(ok, err) == IF err.k = "Ok" THEN POk(ErrorUnion(ok.v, err.v), err.pos) ELSE err

ErrorUnionTail(tokens, r) ==
    IF r.k = "Ok" /\ Kind(tokens, r.pos) = "Bang"
    THEN ErrorUnionOf(r, ParsePath(tokens, r.pos + 1))
    ELSE r

RECURSIVE PrefixType(_, _)

\* The element of a pointer, with a trailing error union taken into it.
PointerElement_WithErrorUnion(tokens, i) == ErrorUnionTail(tokens, PrefixType(tokens, i))

\* The element of a pointer: a type without an error union.
PointerElement(tokens, i) == PrefixType(tokens, i)

PointerOf(nullable, mutable, r) ==
    IF r.k = "Ok" THEN POk(Pointer(nullable, mutable, r.v), r.pos) ELSE r

\* '*' 'mut'? element, with item i the '*'.
PointerType(tokens, i, nullable) ==
    IF Kind(tokens, i + 1) = "Mut"
    THEN PointerOf(nullable, TRUE, PointerElement(tokens, i + 2))
    ELSE PointerOf(nullable, FALSE, PointerElement(tokens, i + 1))

\* '?' '*' ... | '*' ... | a primitive type | a path.
PrefixType(tokens, i) ==
    IF Kind(tokens, i) = "Question"
    THEN IF Kind(tokens, i + 1) = "Star" THEN PointerType(tokens, i + 1, TRUE)
         ELSE PErr(i + 1)
    ELSE IF Kind(tokens, i) = "Star" THEN PointerType(tokens, i, FALSE)
    ELSE IF Kind(tokens, i) \in PrimitiveTypes THEN POk(Primitive(Kind(tokens, i)), i + 1)
    ELSE IF Kind(tokens, i) = "Ident" THEN POk(TypePath(Path(<<tokens[i].token.s>>)), i + 1)
    ELSE PErr(i)

\* Type: a prefix type, then ('!' Path)?.
ParseType(tokens, i) == ErrorUnionTail(tokens, PrefixType(tokens, i))

\* Primary: an integer literal or a path.
Primary(tokens, i) ==
    IF Kind(tokens, i) = "IntegerLiteral" THEN POk(IntegerExpr(tokens[i].token.s), i + 1)
    ELSE IF Kind(tokens, i) = "Ident" THEN POk(PathExpr(Path(<<tokens[i].token.s>>)), i + 1)
    ELSE PErr(i)

RECURSIVE CastTail(_, _)

CastOf(tokens, r, ty) ==
    IF ty.k = "Ok" THEN CastTail(tokens, POk(Cast(r.v, ty.v), ty.pos)) ELSE ty

\* Postfix: ('as' Type)* behind the expression r.
CastTail(tokens, r) ==
    IF r.k = "Ok" /\ Kind(tokens, r.pos) = "As"
    THEN CastOf(tokens, r, ParseType(tokens, r.pos + 1))
    ELSE r

Postfix(tokens, i) == CastTail(tokens, Primary(tokens, i))

RECURSIVE Unary(_, _)

UnaryOf(op, r) == IF r.k = "Ok" THEN POk(UnaryOp(op, r.v), r.pos) ELSE r

\* Unary: a prefix operator and a Unary, or a Postfix.
Unary(tokens, i) ==
    IF Kind(tokens, i) \in DOMAIN UnaryOperator
    THEN UnaryOf(UnaryOperator[Kind(tokens, i)], Unary(tokens, i + 1))
    ELSE Postfix(tokens, i)

\* The level of a binary operator's token, with the additive operators
\* binding tighter than the multiplicative ones.
Precedence_AdditiveTighter ==
    [Plus |-> "multiplicative", Minus |-> "multiplicative", Star |-> "additive",
     Slash |-> "additive", Percent |-> "additive"]

\* The level of a binary operator's token.
Precedence ==
    [Plus |-> "additive", Minus |-> "additive", Star |-> "multiplicative",
     Slash |-> "multiplicative", Percent |-> "multiplicative"]

\* Whether item i is a binary operator of the level.
OperatorOf(level, tokens, i) ==
    Kind(tokens, i) \in DOMAIN Precedence /\ Precedence[Kind(tokens, i)] = level

RECURSIVE MultiplicativeTail(_, _)

MultiplicativeOf(tokens, lhs, op, rhs) ==
    IF rhs.k = "Ok" THEN MultiplicativeTail(tokens, POk(BinaryOp(lhs.v, op, rhs.v), rhs.pos))
    ELSE rhs

\* (operator Unary)* behind the expression r, left-associative.
MultiplicativeTail(tokens, r) ==
    IF r.k = "Ok" /\ OperatorOf("multiplicative", tokens, r.pos)
    THEN MultiplicativeOf(tokens, r, BinaryOperator[Kind(tokens, r.pos)],
                          Unary(tokens, r.pos + 1))
    ELSE r

Multiplicative(tokens, i) == MultiplicativeTail(tokens, Unary(tokens, i))

RECURSIVE AdditiveTail(_, _)

AdditiveOf(tokens, lhs, op, rhs) ==
    IF rhs.k = "Ok" THEN AdditiveTail(tokens, POk(BinaryOp(lhs.v, op, rhs.v), rhs.pos))
    ELSE rhs

\* (operator Multiplicative)* behind the expression r, left-associative.
AdditiveTail(tokens, r) ==
    IF r.k = "Ok" /\ OperatorOf("additive", tokens, r.pos)
    THEN AdditiveOf(tokens, r, BinaryOperator[Kind(tokens, r.pos)],
                    Multiplicative(tokens, r.pos + 1))
    ELSE r

Additive(tokens, i) == AdditiveTail(tokens, Multiplicative(tokens, i))

\* The parse of the items by the entry point's grammar.
Descend(entry, tokens) ==
    IF entry = "Type" THEN ParseType(tokens, 1) ELSE Additive(tokens, 1)

\* The item the grammar cannot take: the first one behind a complete parse,
\* or the one a step failed at.
Viable(entry, tokens) == Descend(entry, tokens).pos > Len(tokens)

\* ExpressionParser::parse and TypeParser::parse on a stream that holds
\* the items and then ends: the tree, or the error at the first item the
\* grammar cannot take.
Outcome(tokens, r) ==
    IF r.pos <= Len(tokens) THEN UnrecognizedToken(tokens[r.pos])
    ELSE IF r.k = "Ok" THEN ParsedOk(r.v)
    ELSE UnrecognizedEof

Parse(entry, tokens) == Outcome(tokens, Descend(entry, tokens))

(***************************************************************************)
(* The parser on the parser-facing Lexer, which wraps IndentLexer instance *)
(* 1.  A turn of the parser's loop takes the next item of the Lexer and    *)
(* shifts it, or ends the parse; p_tokens holds the items taken.           *)
(***************************************************************************)
NoItem == [k |-> "None", start |-> -1, token |-> NoneItem, end |-> -1]

\* Lexer::next ending the stream at an error of the IndentLexer.
Lexer_next_ErrorEndsStream(c, pos) ==
    IF c.item.k = "Ok"
    THEN [item |-> LexerOk(c.st.span[1], c.item, c.st.span[2]), position |-> c.st.span[2]]
    ELSE [item |-> NoItem, position |-> pos]

\* Lexer::next giving its field position as the start of a token.
Lexer_next_StartsAtPosition(c, pos) ==
    IF c.item.k = "Ok"
    THEN [item |-> LexerOk(pos, c.item, c.st.span[2]), position |-> c.st.span[2]]
    ELSE IF c.item.k = "Err"
    THEN [item |-> LexerErr(InvalidToken), position |-> pos + 1]
    ELSE [item |-> NoItem, position |-> pos]

\* Lexer::next, with c what indent_lexer.next() did: the item returned and
\* the field position.
Lexer_next(c, pos) ==
    IF c.item.k = "Ok"
    THEN [item |-> LexerOk(c.st.span[1], c.item, c.st.span[2]), position |-> c.st.span[2]]
    ELSE IF c.item.k = "Err"
    THEN [item |-> LexerErr(InvalidToken), position |-> pos + 1]
    ELSE [item |-> NoItem, position |-> pos]

\* A turn: the call of Lexer::next, and the item it gives.
Turn(n) ==
    /\ p_pc = "run"
    /\ Pull(1)
    /\ position' = n.position
    /\ p_tokens' = IF n.item.k = "None" THEN p_tokens ELSE Append(p_tokens, n.item)
    /\ UNCHANGED p_entry
    /\ UNCHANGED <<mergeVars, litVars, textVars>>

\* The item is a token the grammar can take.
Shift ==
    \E n \in {Lexer_next(next(lx[1]), position)} :
        /\ n.item.k = "Ok"
        /\ Viable(p_entry, Append(p_tokens, n.item))
        /\ Turn(n)
        /\ UNCHANGED <<p_result, p_pc>>

\* The item is a token the grammar cannot take.
Unexpected ==
    \E n \in {Lexer_next(next(lx[1]), position)} :
        /\ n.item.k = "Ok"
        /\ ~Viable(p_entry, Append(p_tokens, n.item))
        /\ Turn(n)
        /\ p_result' = UnrecognizedToken(n.item)
        /\ p_pc' = "done"

\* The item is an error of the Lexer.
LexicalFailure ==
    \E n \in {Lexer_next(next(lx[1]), position)} :
        /\ n.item.k = "Err"
        /\ Turn(n)
        /\ p_result' = User(n.item.error)
        /\ p_pc' = "done"

\* The Lexer has ended.
EndOfInput ==
    \E n \in {Lexer_next(next(lx[1]), position)} :
        /\ n.item.k = "None"
        /\ Turn(n)
        /\ p_result' = Parse(p_entry, p_tokens)
        /\ p_pc' = "done"

\* A caller that takes the items of the Lexer one after the other, whatever
\* they are: a token, an error, or the end of the stream.
TakeToken ==
    \E n \in {Lexer_next(next(lx[1]), position)} :
        n.item.k = "Ok" /\ Turn(n) /\ UNCHANGED <<p_result, p_pc>>

TakeError ==
    \E n \in {Lexer_next(next(lx[1]), position)} :
        n.item.k = "Err" /\ Turn(n) /\ UNCHANGED <<p_result, p_pc>>

TakeNone ==
    \E n \in {Lexer_next(next(lx[1]), position)} :
        n.item.k = "None" /\ Turn(n) /\ UNCHANGED <<p_result, p_pc>>

\* A parse of a whole token stream at once.
ParseStream ==
    /\ p_pc = "start"
    /\ p_result' = Parse(p_entry, p_tokens)
    /\ p_pc' = "done"
    /\ UNCHANGED <<p_entry, p_tokens, position>>
    /\ UNCHANGED <<lexVars, mergeVars, litVars, textVars>>

(***************************************************************************)
(* The raw lexer run on a text (slot 1, and slot 2 for a second text), and *)
(* IntegerLiteral::as_u64 with the conversion of its error applied to the  *)
(* literal at hand: the one the raw lexer returned last, or one built with *)
(* IntegerLiteral::builder().                                              *)
(***************************************************************************)
Slot == {1, 2}

NoSpan == <<-1, -1>>
NoLit == [set |-> FALSE, lit |-> IntegerLiteral("Decimal", <<>>, NoSuffix), span |-> NoSpan]
NoConv == [done |-> FALSE, result |-> ParseOk(<<0>>), error |-> InvalidInteger(NoSpan, "")]

\* A call of next() on the raw lexer of slot k that returns an item.
Scan(k) ==
    \E r \in {RawNext(l_src[k], l_pos[k])} :
        /\ r.item # NoneItem
        /\ l_pos' = [l_pos EXCEPT ![k] = r.pos]
        /\ l_out' = [l_out EXCEPT ![k] = Append(@, [item |-> r.item, span |-> r.span])]
        /\ IF r.item.t = "IntegerLiteral"
           THEN /\ l_lit' = [set |-> TRUE, lit |-> r.item.s, span |-> r.span]
                /\ l_conv' = NoConv
           ELSE UNCHANGED <<l_lit, l_conv>>
        /\ UNCHANGED l_src
        /\ UNCHANGED <<lexVars, mergeVars, parseVars, textVars>>

\* as_u64 on the literal at hand; its error is converted with
\* LexicalError::from.
AsU64 ==
    /\ l_lit.set
    /\ ~l_conv.done
    /\ \E r \in {as_u64(l_lit.lit)} :
           l_conv' = [done |-> TRUE, result |-> r,
                      error |-> IF r.k = "Err" THEN LexicalErrorFrom(r)
                                ELSE InvalidInteger(NoSpan, "")]
    /\ UNCHANGED <<l_src, l_pos, l_out, l_lit>>
    /\ UNCHANGED <<lexVars, mergeVars, parseVars, textVars>>

LitIdle ==
    /\ l_src = [k \in Slot |-> <<>>]
    /\ l_pos = [k \in Slot |-> 0]
    /\ l_out = [k \in Slot |-> <<>>]
    /\ l_lit = NoLit
    /\ l_conv = NoConv

\* The digit parts of number lexemes: a first character and up to n - 1
\* further ones.
Body(first, rest, n) ==
    { <<f>> \o r : f \in first, r \in UNION { [1..j -> rest] : j \in 0..(n - 1) } }

SuffixTexts(table) == {<<>>} \cup { table[k].text : k \in DOMAIN table }

\* Numerals at the edge of u64 in the four bases, and of u32.
EdgeIntegers ==
    { <<"1", "8", "4", "4", "6", "7", "4", "4", "0", "7", "3", "7", "0", "9", "5", "5", "1", "6", "1", "5">>,
      <<"1", "8", "4", "4", "6", "7", "4", "4", "0", "7", "3", "7", "0", "9", "5", "5", "1", "6", "1", "6">>,
      <<"0", "x">> \o Times("f", 16),
      <<"0", "x", "1">> \o Times("0", 16),
      <<"0", "o", "1">> \o Times("7", 21),
      <<"0", "o", "2">> \o Times("0", 21),
      <<"0", "b">> \o Times("1", 64),
      <<"0", "b", "1">> \o Times("0", 64) }

EdgeExponents ==
    { <<"4", "2", "9", "4", "9", "6", "7", "2", "9", "5">>,
      <<"4", "2", "9", "4", "9", "6", "7", "2", "9", "6">>,
      <<"0", "0", "_", "7">> }

\* Lexemes of the four patterns of IntegerLiteral.
IntegerBodies ==
    Body({"1", "8"}, {"0", "_"}, MaxDigits)
    \cup { <<"0", "b">> \o d : d \in Body(BinDigit, {"1", "_"}, MaxDigits) }
    \cup { <<"0", "o">> \o u \o d :
             u \in {<<>>, <<"_">>}, d \in Body({"7"}, {"0", "_"}, MaxDigits) }
    \cup { <<"0", "x">> \o u \o d :
             u \in {<<>>, <<"_">>}, d \in Body({"b", "F"}, {"e", "_"}, MaxDigits) }

IntegerLexemes ==
    { b \o suf : b \in IntegerBodies, suf \in SuffixTexts(SUFFIXES) } \cup EdgeIntegers

\* Lexemes of the two patterns of FloatLiteral.
FloatLexemes ==
    LET ints == Body({"1"}, {"0", "_"}, MaxDigits)
        fracs == { <<".">> \o d : d \in Body({"5"}, {"_"}, 2) }
        exps == { <<"e">> \o sg \o d :
                    sg \in {<<>>, <<"+">>, <<"-">>},
                    d \in Body({"2"}, {"0", "_"}, 2) \cup EdgeExponents }
    IN  { i \o m \o suf : i \in ints, m \in { f \o x : f \in fracs, x \in exps \cup {<<>>} } \cup exps,
                          suf \in SuffixTexts(FLOAT_SUFFIXES) }

\* A decimal digit string followed by a point that starts no fraction, or
\* directly by f32 or f64.
PointTexts ==
    { d \o t :
        d \in Body({"0", "2"}, {"0", "9"}, MaxDigits),
        t \in { <<".">>, <<".", "a">>, <<".", SP, "1">>, <<".", "f", "3", "2">>,
                <<".", "_">>, <<".", ".">>, <<".", NL>>, <<".", "e", "5">>, <<".", "$">>,
                <<"f", "3", "2">>, <<"f", "6", "4">> } }

\* What stands in a text in front of a lexeme.
Lead == { <<>>, <<"a", SP>> }

\* The lexemes got from lexeme by putting one more "_" into it that are
\* lexemes of the same token still.
Underscored(lexeme, t) ==
    { v \in { SubSeq(lexeme, 1, j) \o <<"_">> \o SubSeq(lexeme, j + 1, Len(lexeme)) :
                j \in 1..Len(lexeme) } :
        \E r \in {RawNext(v, 0)} : r.pos = Len(v) /\ r.item.k = "Ok" /\ r.item.t = t }

\* Literals built with IntegerLiteral::builder(): any text as digits.
BuiltDigits ==
    UNION { [1..j -> {"0", "1", "9", "f", "g", "+"}] : j \in 0..MaxDigits }
    \cup { SubSeq(e, 3, Len(e)) : e \in { x \in EdgeIntegers : x[1] = "0" } }
    \cup { e \in EdgeIntegers : e[1] # "0" }
    \cup { Times("9", 21) \o <<"g">>, <<"g">> \o Times("9", 21), <<"+">> \o Times("9", 21) }

BuiltLiterals ==
    { IntegerLiteral(b, d, NoSuffix) :
        b \in {"Binary", "Octal", "Decimal", "Hex"}, d \in BuiltDigits }

InitLiteral ==
    /\ active = {}
    /\ TextIdle
    /\ inorder = FALSE
    /\ LexInit(<<Idle, Idle>>)
    /\ MergeIdle
    /\ ParseIdle
    /\ l_pos = [k \in Slot |-> 0]
    /\ l_out = [k \in Slot |-> <<>>]
    /\ l_conv = NoConv
    /\ \/ /\ l_lit = NoLit
          /\ \E t \in IntegerLexemes \cup FloatLexemes \cup PointTexts
                       \cup { h \o e : h \in Lead, e \in EdgeIntegers \cup PointTexts } :
                 l_src = <<t, <<>>>>
       \/ /\ l_lit = NoLit
          /\ \E t \in { b \o suf : b \in IntegerBodies, suf \in {<<>>, <<"u", "3", "2">>} } :
                 \E v \in Underscored(t, "IntegerLiteral") : l_src = <<t, v>>
       \/ /\ l_lit = NoLit
          /\ \E t \in { f \in FloatLexemes : FindSuffix(FLOAT_SUFFIXES, f) = 0 } :
                 \E v \in Underscored(t, "FloatLiteral") : l_src = <<t, v>>
       \/ /\ l_src = <<<<>>, <<>>>>
          /\ \E b \in BuiltLiterals : l_lit = [set |-> TRUE, lit |-> b, span |-> NoSpan]

NextLiteral ==
    \/ \E k \in Slot : Scan(k)
    \/ AsU64

SpecLiteral == InitLiteral /\ [][NextLiteral]_vars

Init ==
    /\ active = {1}
    /\ TextIdle
    /\ inorder = FALSE
    /\ \E s \in Sources : LexInit(<<new(s), Idle>>)
    /\ MergeIdle
    /\ ParseIdle
    /\ LitIdle

Next == \E i \in Inst : LexNext(i)

Spec == Init /\ [][Next]_vars

\* Two runs of the lexer: on a source, and on that source with a line that
\* holds no token put between two lines of equal width that hold one.
IsBlankLine(line) == RawNext(line, 0).item = NoneItem

LineWidth(line) == calculate_line_indentation(line, SkipTrivia(line, 0))

\* The lines before and after the two lines.
ContextLineSet == { <<"a">>, Sp(4) \o <<"a", SP, "a">>, Sp(8) \o <<"a">>, <<>> }

ContextSeqs(n) == UNION { [1..k -> ContextLineSet] : k \in 0..n }

InitBlank ==
    /\ active = {1, 2}
    /\ TextIdle
    /\ inorder = TRUE
    /\ \E pre \in ContextSeqs(MaxPairContext), post \in ContextSeqs(MaxPairContext),
          l1 \in LineSet, l2 \in LineSet, b \in BlankLineSet :
          /\ Len(pre) + Len(post) <= MaxPairContext
          /\ ~IsBlankLine(l1) /\ ~IsBlankLine(l2)
          /\ LineWidth(l1) = LineWidth(l2)
          /\ LexInit(<<new(Join(pre \o <<l1, l2>> \o post)),
                       new(Join(pre \o <<l1, b, l2>> \o post))>>)
    /\ MergeIdle
    /\ ParseIdle
    /\ LitIdle

SpecBlank == InitBlank /\ [][Next]_vars

\* Two lexers whose calls of next() come in any order, on texts of the
\* lines of widths 0, 4 and 8 and of a line the raw lexer rejects.
PairLineSet == { <<"a">>, Sp(4) \o <<"a", SP, "a">>, Sp(8) \o <<"a">>, <<"$">> }

PairSources == { Join(ls) : ls \in UNION { [1..k -> PairLineSet] : k \in 0..MaxPairLines } }

InitPair ==
    /\ active = {1, 2}
    /\ TextIdle
    /\ inorder = FALSE
    /\ \E s1 \in PairSources, s2 \in PairSources : LexInit(<<new(s1), new(s2)>>)
    /\ MergeIdle
    /\ ParseIdle
    /\ LitIdle

SpecPair == InitPair /\ [][Next]_vars

InitMerge ==
    /\ active = {}
    /\ TextIdle
    /\ inorder = FALSE
    /\ LexInit(<<Idle, Idle>>)
    /\ m_params \in SeqsUpTo(HeaderParams, MaxParams)
    /\ m_where \in SeqsUpTo(WhereEntries, MaxWhere)
    /\ m_result = <<>>
    /\ m_pc = "start"
    /\ ParseIdle
    /\ LitIdle

NextMerge == Merge

SpecMerge == InitMerge /\ [][NextMerge]_vars

\* A token stream: the tokens with the spans of one-character lexemes.
TokenStream(toks) == [j \in 1..Len(toks) |-> LexerOk(j - 1, toks[j], j)]

ExpressionTokens ==
    { Tok("Ident", <<"a">>), Tok("IntegerLiteral", IntegerLiteral("Decimal", <<"2">>, NoSuffix)),
      Tok("Plus", <<>>), Tok("Minus", <<>>), Tok("Star", <<>>), Tok("Percent", <<>>),
      Tok("Bang", <<>>), Tok("As", <<>>), Tok("I32", <<>>) }

TypeTokens ==
    { Tok("Question", <<>>), Tok("Star", <<>>), Tok("Mut", <<>>), Tok("I32", <<>>),
      Tok("Ident", <<"a">>), Tok("Bang", <<>>) }

InitGrammar ==
    /\ active = {}
    /\ TextIdle
    /\ inorder = FALSE
    /\ LexInit(<<Idle, Idle>>)
    /\ MergeIdle
    /\ LitIdle
    /\ \/ /\ p_entry = "Expression"
          /\ \E toks \in SeqsUpTo(ExpressionTokens, MaxTokens) : p_tokens = TokenStream(toks)
       \/ /\ p_entry = "Type"
          /\ \E toks \in SeqsUpTo(TypeTokens, MaxTokens) : p_tokens = TokenStream(toks)
    /\ position = 0
    /\ p_result = NoResult
    /\ p_pc = "start"

NextGrammar == ParseStream

SpecGrammar == InitGrammar /\ [][NextGrammar]_vars

\* The words of the texts handed to the parser, "$" and the carriage return
\* characters no rule of the lexer matches.
ParseWords ==
    { <<"a">>, <<"2">>, <<"+">>, <<"*">>, <<"!">>, <<"i", "3", "2">>, <<"$">>, <<CR>> }

RECURSIVE Spaced(_)
Spaced(words) ==
    IF Len(words) = 0 THEN <<>>
    ELSE IF Len(words) = 1 THEN words[1]
    ELSE words[1] \o <<SP>> \o Spaced(Tail(words))

ParseSources == { Spaced(words) : words \in SeqsUpTo(ParseWords, MaxWords) }

InitParse ==
    /\ active = {1}
    /\ TextIdle
    /\ inorder = FALSE
    /\ \E s \in ParseSources : LexInit(<<new(s), Idle>>)
    /\ MergeIdle
    /\ LitIdle
    /\ p_entry \in {"Expression", "Type"}
    /\ p_tokens = <<>>
    /\ position = 0
    /\ p_result = NoResult
    /\ p_pc = "run"

NextParse ==
    \/ Shift
    \/ Unexpected
    \/ LexicalFailure
    \/ EndOfInput

SpecParse == InitParse /\ [][NextParse]_vars

\* The parser-facing Lexer iterated over the texts of the lexer.
InitLexer ==
    /\ active = {1}
    /\ TextIdle
    /\ inorder = FALSE
    /\ \E s \in Sources : LexInit(<<new(s), Idle>>)
    /\ MergeIdle
    /\ LitIdle
    /\ p_entry = "Expression"
    /\ p_tokens = <<>>
    /\ position = 0
    /\ p_result = NoResult
    /\ p_pc = "run"

NextLexer ==
    \/ TakeToken
    \/ TakeError
    \/ TakeNone

SpecLexer == InitLexer /\ [][NextLexer]_vars

(***************************************************************************)
(* LexicalError::position_from_source (crates/nyx-lexer/src/error.rs).     *)
(* Its source is the sequence of the characters of the text; a character   *)
(* of two bytes in UTF-8 is written TwoBytes, every other one has one.     *)
(***************************************************************************)
TwoBytes == "<2>"

\* char::len_utf8.
len_utf8(ch) == IF ch = TwoBytes THEN 2 ELSE 1

\* str::len of the first n characters: their bytes.
RECURSIVE ByteLen(_, _)
ByteLen(source, n) == IF n = 0 THEN 0 ELSE ByteLen(source, n - 1) + len_utf8(source[n])

\* The loop over source.chars().enumerate(), at index i.
RECURSIVE PositionLoop(_, _, _, _, _)
PositionLoop(source, offset, i, line, column) ==
    IF i >= Len(source) \/ i >= offset THEN <<line, column>>
    ELSE IF source[i + 1] = NL THEN PositionLoop(source, offset, i + 1, line + 1, 1)
    ELSE PositionLoop(source, offset, i + 1, line, column + 1)

position_from_source(source, offset) == PositionLoop(source, offset, 0, 1, 1)

\* A call of position_from_source.
Locate ==
    /\ t_position = NoPosition
    /\ t_position' = position_from_source(t_source, t_offset)
    /\ UNCHANGED <<t_source, t_offset, i_raw, i_build, i_parts>>
    /\ UNCHANGED <<lexVars, mergeVars, parseVars, litVars>>

PositionChars == {"a", NL, TwoBytes}

InitPosition ==
    /\ active = {}
    /\ inorder = FALSE
    /\ LexInit(<<Idle, Idle>>)
    /\ MergeIdle
    /\ ParseIdle
    /\ LitIdle
    /\ t_source \in SeqsUpTo(PositionChars, MaxChars)
    /\ t_offset \in 0..ByteLen(t_source, Len(t_source))
    /\ t_position = NoPosition
    /\ i_raw = <<>>
    /\ i_build = "debug"
    /\ i_parts = NoParts

NextPosition == Locate

SpecPosition == InitPosition /\ [][NextPosition]_vars

(***************************************************************************)
(* parse_interp_parts (fig-parser): the content of an interpolated string  *)
(* split into parts.                                                       *)
(***************************************************************************)
\* InterpolatedPart::Text; an InterpolatedPart::Expression is never built.
Text(t) == [kind |-> "Text", text |-> t]

\* The locals of parse_interp_parts before the loop.  depth is a usize: it
\* is kept here as the integer it is congruent to modulo 2^64 that is
\* nearest to 0, which for a text of a few characters decides depth = 0
\* and depth = 1 as the code does.
InterpStart ==
    [parts |-> <<>>, text |-> <<>>, expr |-> <<>>, depth |-> 0,
     underflow |-> FALSE, panicked |-> FALSE]

\* The arm (_, '}'): depth -= 1.  At depth 0 the subtraction overflows: a
\* build with overflow checks panics there, a build without them wraps.
CloseNested(s, c, build) ==
    IF s.depth = 0
    THEN IF build = "debug"
         THEN [s EXCEPT !.underflow = TRUE, !.panicked = TRUE]
         ELSE [s EXCEPT !.underflow = TRUE, !.depth = @ - 1, !.expr = Append(@, c)]
    ELSE [s EXCEPT !.depth = @ - 1, !.expr = Append(@, c)]

\* The arm (1, '}') of a function that stores the span without its braces.
CloseOutermost_Bare(s) ==
    [s EXCEPT !.depth = 0, !.parts = Append(@, Text(s.expr)), !.expr = <<>>]

\* The arm (1, '}'): the span is stored with its braces.
CloseOutermost(s) ==
    [s EXCEPT !.depth = 0,
              !.parts = Append(@, Text(<<"{">> \o s.expr \o <<"}">>)),
              !.expr = <<>>]

\* The body of the loop: the match on (depth, c).
InterpStep(s, c, build) ==
    IF s.panicked THEN s
    ELSE IF s.depth = 0 /\ c = "{"
    THEN [s EXCEPT !.parts = IF s.text # <<>> THEN Append(@, Text(s.text)) ELSE @,
                   !.text = <<>>,
                   !.depth = 1]
    ELSE IF c = "{" THEN [s EXCEPT !.depth = @ + 1, !.expr = Append(@, c)]
    ELSE IF s.depth = 1 /\ c = "}" THEN CloseOutermost(s)
    ELSE IF c = "}" THEN CloseNested(s, c, build)
    ELSE IF s.depth = 0 THEN [s EXCEPT !.text = Append(@, c)]
    ELSE [s EXCEPT !.expr = Append(@, c)]

RECURSIVE InterpLoop(_, _, _)
InterpLoop(raw, n, build) ==
    IF n = 0 THEN InterpStart ELSE InterpStep(InterpLoop(raw, n - 1, build), raw[n], build)

\* After the loop: the trailing text is flushed and parts returned.
InterpFinish(s) ==
    IF s.panicked THEN [k |-> "panic", v |-> <<>>, underflow |-> TRUE]
    ELSE [k |-> "parts",
          v |-> IF s.text # <<>> THEN Append(s.parts, Text(s.text)) ELSE s.parts,
          underflow |-> s.underflow]

parse_interp_parts(raw, build) == InterpFinish(InterpLoop(raw, Len(raw), build))

\* A call of parse_interp_parts.
Interpolate ==
    /\ i_parts = NoParts
    /\ i_parts' = parse_interp_parts(i_raw, i_build)
    /\ UNCHANGED <<t_source, t_offset, t_position, i_raw, i_build>>
    /\ UNCHANGED <<lexVars, mergeVars, parseVars, litVars>>

RawChars == {"a", "{", "}"}

InitInterp ==
    /\ active = {}
    /\ inorder = FALSE
    /\ LexInit(<<Idle, Idle>>)
    /\ MergeIdle
    /\ ParseIdle
    /\ LitIdle
    /\ t_source = <<>>
    /\ t_offset = 0
    /\ t_position = NoPosition
    /\ i_raw \in SeqsUpTo(RawChars, MaxRaw)
    /\ i_build \in {"debug", "release"}
    /\ i_parts = NoParts

NextInterp == Interpolate

SpecInterp == InitInterp /\ [][NextInterp]_vars

(***************************************************************************)
(* What the properties below are stated with.                              *)
(***************************************************************************)
Count(seq, x) == Cardinality({ k \in DOMAIN seq : seq[k] = x })
Rep(x, n) == [k \in 1..n |-> x]
IsReal(item) == item.k = "Ok" /\ item \notin {Newline, Indent, Dedent}

\* The width of the leading whitespace of the line that holds offset o: a
\* space counts 1 and a tab counts 4.
LeadingWidth(source, o) ==
    LET starts == { q \in 0..o : (q = 0 \/ source[q] = NL)
                                   /\ \A k \in (q + 1)..o : source[k] # NL }
        ls == CHOOSE q \in starts : TRUE
        ends == { e \in ls..o : \A k \in (ls + 1)..e : source[k] \in {SP, TAB} }
        le == CHOOSE e \in ends : \A f \in ends : f <= e
    IN  Cardinality({ k \in (ls + 1)..le : source[k] = SP })
        + 4 * Cardinality({ k \in (ls + 1)..le : source[k] = TAB })

\* The raw lexer's whole output on source from offset pos on.
RECURSIVE RawFrom(_, _)
RawFrom(source, pos) ==
    CHOOSE rest \in
        { IF r.item = NoneItem THEN <<>> ELSE <<r.item>> \o RawFrom(source, r.pos) :
            r \in {RawNext(source, pos)} } : TRUE

\* The raw items that end at or before offset pos.
RECURSIVE RawBetween(_, _, _)
RawBetween(source, from, pos) ==
    CHOOSE rest \in
        { IF r.item = NoneItem \/ r.pos > pos THEN <<>>
          ELSE <<r.item>> \o RawBetween(source, r.pos, pos) :
            r \in {RawNext(source, from)} } : TRUE

StripLayout(seq) == SelectSeq(seq, LAMBDA x : x \notin {Indent, Dedent, NoneItem})

\* The items returned since the latest evaluation of a line began.
Emitted(i) == SubSeq(out[i], ev[i].idx + 1, Len(out[i]))
EvWidth(i) == LeadingWidth(lx[i].source, ev[i].token_start)
EvStack(i) == ev[i].before.indent_stack
EvTop(i) == EvStack(i)[Len(EvStack(i))]

\* While the layout tokens and the real token of the evaluated line are being
\* returned, what has been returned and what is queued make up expected and
\* the stack is stack; afterwards expected is what was returned.
EvWindow(i, expected, stack) ==
    LET got == Emitted(i) IN
    IF Len(got) <= Len(expected)
    THEN /\ got = SubSeq(expected, 1, Len(got))
         /\ lx[i].pending_tokens = SubSeq(expected, Len(got) + 1, Len(expected))
         /\ lx[i].indent_stack = stack
    ELSE SubSeq(got, 1, Len(expected)) = expected

Exhausted(st) ==
    Len(st.pending_tokens) = 0 /\ RawNext(st.source, st.pos).item = NoneItem

(***************************************************************************)
(* C1: once next() has returned None, the whole stream holds as many       *)
(* Indent tokens as Dedent tokens, the end-of-input flush included.        *)
(***************************************************************************)
C1_IndentsEqualDedents ==
    \A i \in active :
        nones[i] > 0 => Count(out[i], Indent) = Count(out[i], Dedent)

\* A finished stream with two Indents, a Dedent in front of a line's token
\* and a Dedent of the flush.
C1_Witness ==
    /\ nones[1] > 0
    /\ Count(out[1], Indent) = 2
    /\ \E k \in 1..(Len(out[1]) - 1) : out[1][k] = Dedent /\ IsReal(out[1][k + 1])
    /\ \E k \in 1..(Len(out[1]) - 1) : out[1][k] = Dedent /\ out[1][k + 1] = NoneItem

(***************************************************************************)
(* C2: when the first token of a line is pulled after a Newline and the    *)
(* line's width w is below the stack top, the levels above w are popped    *)
(* and no others (the pop stops at the first level <= w, whether or not it *)
(* equals w; no error item is produced); one Dedent per popped level is    *)
(* returned on consecutive calls, after the Newline and in front of the    *)
(* line's real token; and while that line stays the latest one evaluated,  *)
(* a stack brought back to its base yields no further Dedent, at the end   *)
(* of input included.                                                      *)
(***************************************************************************)
C2_DedentPopsLevelsAboveWidth ==
    \A i \in active :
        (ev[i].set /\ EvWidth(i) < EvTop(i)) =>
            LET w == EvWidth(i)
                kept == SelectSeq(EvStack(i), LAMBDA l : l <= w)
                n == Len(EvStack(i)) - Len(kept)
                expected == Rep(Dedent, n) \o <<ev[i].tok>>
                got == Emitted(i)
            IN  /\ n >= 1
                /\ IsReal(ev[i].tok)
                /\ \E k \in 1..ev[i].idx :
                       /\ out[i][k] = Newline
                       /\ \A j \in (k + 1)..ev[i].idx : out[i][j] = ErrItem
                /\ EvWindow(i, expected, kept)
                /\ kept = <<0>> => \A k \in (n + 2)..Len(got) : got[k] # Dedent

\* A line of width 6 under the stack [0, 4, 8]: one level popped, none equal
\* to the width, and the Dedent and the token both returned.
C2_Witness ==
    /\ ev[1].set
    /\ EvStack(1) = <<0, 4, 8>>
    /\ EvWidth(1) = 6
    /\ Emitted(1) = <<Dedent, ev[1].tok>>
    /\ lx[1].indent_stack = <<0, 4>>

(***************************************************************************)
(* C3: when the first token of a line is pulled after a Newline and the    *)
(* line's width w (a space counts 1, a tab 4) is at least the stack top t, *)
(* the levels t+4, t+8, ..., floor((w-t)/4) of them, are pushed and as     *)
(* many Indent tokens are returned on consecutive calls, followed by the   *)
(* real token; with w = t no layout token is returned, the stack is left   *)
(* as it was and the real token is returned as pulled.                     *)
(***************************************************************************)
C3_IndentPushesOneLevelPerFour ==
    \A i \in active :
        (ev[i].set /\ EvWidth(i) >= EvTop(i)) =>
            LET w == EvWidth(i)
                t == EvTop(i)
                n == (w - t) \div 4
                pushed == EvStack(i) \o [k \in 1..n |-> t + 4 * k]
                expected == Rep(Indent, n) \o <<ev[i].tok>>
            IN  /\ IsReal(ev[i].tok)
                /\ EvWindow(i, expected, pushed)
                /\ w = t => /\ Emitted(i)[1] = ev[i].tok
                            /\ last[i].before = ev[i].before =>
                                   /\ lx[i].indent_stack = EvStack(i)
                                   /\ lx[i].pending_tokens = <<>>

\* A line led by tab, space, tab (width 9) under the stack [0]: the levels 4
\* and 8 pushed, and Indent, Indent and the token returned.
C3_Witness ==
    /\ ev[1].set
    /\ EvStack(1) = <<0>>
    /\ EvWidth(1) = 9
    /\ lx[1].source[ev[1].token_start] = TAB
    /\ Emitted(1) = <<Indent, Indent, ev[1].tok>>
    /\ lx[1].indent_stack = <<0, 4, 8>>

(***************************************************************************)
(* C4: a call of next() that finds the raw lexer exhausted and the pending *)
(* queue empty pops exactly one level and returns Dedent while a level     *)
(* above the base is open, and otherwise returns None with the stack [0]   *)
(* and the queue empty; None is never returned while a token is queued,    *)
(* and when it is returned every real token of the raw stream has been     *)
(* returned.                                                               *)
(***************************************************************************)
C4_EndOfInputFlush ==
    \A i \in active :
        /\ (last[i].branch # "init" /\ Exhausted(last[i].before)) =>
              LET stack == last[i].before.indent_stack IN
              IF Len(stack) > 1
              THEN /\ last[i].item = Dedent
                   /\ lx[i].indent_stack = SubSeq(stack, 1, Len(stack) - 1)
                   /\ lx[i].pending_tokens = <<>>
              ELSE /\ last[i].item = NoneItem
                   /\ lx[i].indent_stack = <<0>>
                   /\ lx[i].pending_tokens = <<>>
        /\ (last[i].branch # "init" /\ last[i].item = NoneItem) =>
              Exhausted(last[i].before)
        /\ nones[i] > 0 =>
              SelectSeq(out[i], IsReal) = SelectSeq(RawFrom(lx[i].source, 0), IsReal)

\* The stream of a source that ends two levels deep: the last real token was
\* queued behind an Indent, then Dedent, Dedent, None.
C4_Witness ==
    /\ nones[1] = 1
    /\ Len(out[1]) >= 5
    /\ LET n == Len(out[1]) IN
        /\ out[1][n - 4] = Indent
        /\ IsReal(out[1][n - 3])
        /\ out[1][n - 2] = Dedent
        /\ out[1][n - 1] = Dedent
        /\ out[1][n] = NoneItem

(***************************************************************************)
(* C5: the first line of the source is evaluated like any later line: if   *)
(* the first token of the stream that is not a Newline stands behind       *)
(* leading whitespace of width w >= 4 on its line, floor(w/4) Indent       *)
(* tokens are returned in front of it.                                     *)
(***************************************************************************)
C5_FirstLineIsEvaluated ==
    \A i \in active :
        \A k \in 1..Len(out[i]) :
            (/\ IsReal(out[i][k])
             /\ \A j \in 1..(k - 1) : ~IsReal(out[i][j]) /\ out[i][j] # ErrItem
             /\ LeadingWidth(lx[i].source, spans[i][k][1]) >= 4)
            => Count(SubSeq(out[i], 1, k - 1), Indent)
                   = LeadingWidth(lx[i].source, spans[i][k][1]) \div 4

(***************************************************************************)
(* C6: for two consecutive lines of equal width that each hold a token,    *)
(* putting between them a line that is empty, whitespace only or comment   *)
(* only, with any leading whitespace of its own, leaves the output of a    *)
(* whole run unchanged once runs of Newline are collapsed to one Newline.  *)
(* Instance 1 runs on the source, instance 2 on the source with the line.  *)
(***************************************************************************)
RECURSIVE CollapseNewlines(_)
CollapseNewlines(seq) ==
    IF Len(seq) <= 1 THEN seq
    ELSE IF seq[1] = Newline /\ seq[2] = Newline THEN CollapseNewlines(Tail(seq))
    ELSE <<seq[1]>> \o CollapseNewlines(Tail(seq))

Stream(i) == SelectSeq(out[i], LAMBDA x : x # NoneItem)

C6_BlankLineLeavesStreamUnchanged ==
    (nones[1] > 0 /\ nones[2] > 0) =>
        CollapseNewlines(Stream(1)) = CollapseNewlines(Stream(2))

\* Both runs ended, the second with one Newline more than the first, where
\* the added line has leading whitespace and the stream holds layout tokens
\* of both kinds.
C6_Witness ==
    /\ nones[1] > 0 /\ nones[2] > 0
    /\ Len(Stream(2)) = Len(Stream(1)) + 1
    /\ Len(lx[2].source) >= Len(lx[1].source) + 4
    /\ Count(out[1], Indent) >= 1
    /\ \E k \in 1..(Len(out[1]) - 1) : out[1][k] = Dedent /\ IsReal(out[1][k + 1])

(***************************************************************************)
(* C7: a call of next() that pulls a raw Newline returns Newline and       *)
(* changes nothing but the raw lexer's position and the line-start flags:  *)
(* the indent stack and the pending queue are as before.  So the Newline   *)
(* that ends a blank or comment-only line, whatever that line's leading    *)
(* whitespace, moves no level and brings no Indent or Dedent.              *)
(***************************************************************************)
PulledNewline(i) ==
    /\ last[i].branch # "init"
    /\ last[i].before.pending_tokens = <<>>
    /\ RawNext(last[i].before.source, last[i].before.pos).item = Newline

C7_NewlineLeavesStackAndQueue ==
    \A i \in active :
        PulledNewline(i) =>
            LET r == RawNext(last[i].before.source, last[i].before.pos) IN
            /\ last[i].item = Newline
            /\ out[i][Len(out[i])] = Newline
            /\ lx[i] = [last[i].before EXCEPT !.pos = r.pos, !.span = r.span,
                                              !.last_was_newline = TRUE,
                                              !.at_line_start = TRUE]
            /\ lx[i].indent_stack = last[i].before.indent_stack
            /\ lx[i].pending_tokens = last[i].before.pending_tokens

\* The Newline that ends a comment-only line of width 6, a whole line of its
\* own, pulled while the stack is [0].
C7_Witness ==
    /\ PulledNewline(1)
    /\ lx[1].indent_stack = <<0>>
    /\ LET e == lx[1].span[1] IN
        /\ LeadingWidth(lx[1].source, e) = 6
        /\ e >= 1 /\ lx[1].source[e] # SP
        /\ Len(out[1]) >= 2 /\ out[1][Len(out[1]) - 1] = Newline

(***************************************************************************)
(* C8: a call of next() pulls at most one item from the raw lexer, and the *)
(* items returned, Indent and Dedent deleted, are the raw lexer's items    *)
(* (tokens and errors) in the raw lexer's order, each once: at any moment  *)
(* the items returned followed by the queued real token are the raw items  *)
(* pulled so far, and after None they are the whole raw stream.            *)
(***************************************************************************)
C8_OutputIsRawStreamPlusLayout ==
    \A i \in active :
        LET src == lx[i].source
            before == last[i].before
        IN  /\ StripLayout(out[i]) \o StripLayout(lx[i].pending_tokens)
                   = RawBetween(src, 0, lx[i].pos)
            /\ last[i].branch # "init" =>
                   Len(RawBetween(src, before.pos, lx[i].pos)) <= 1
            /\ nones[i] > 0 => StripLayout(out[i]) = RawFrom(src, 0)

\* A finished stream with an error item, layout tokens of both kinds and a
\* real token that waited in the queue.
C8_Witness ==
    /\ nones[1] > 0
    /\ Count(out[1], ErrItem) >= 1
    /\ Count(out[1], Indent) >= 2
    /\ \E k \in 1..(Len(out[1]) - 2) :
           out[1][k] = Dedent /\ out[1][k + 1] = Dedent /\ IsReal(out[1][k + 2])

(***************************************************************************)
(* C9: merge_where_clause yields no two entries with the same name: for a  *)
(* parameter list with pairwise distinct names and any where-clause, each  *)
(* name occurs at most once in the returned list.                          *)
(***************************************************************************)
DistinctNames(list) ==
    \A j, k \in DOMAIN list : list[j].name = list[k].name => j = k

C9_MergeYieldsDistinctNames ==
    (m_pc = "done" /\ DistinctNames(m_params)) => DistinctNames(m_result)

(***************************************************************************)
(* C10: for the Type parameter named n of the header (the one entry of the *)
(* header with that name), with bounds B, and the where-clause's Type      *)
(* constraints on n with bounds W1, W2, ... in that order, the returned    *)
(* list holds exactly one entry named n, a Type entry whose bounds are B,  *)
(* W1, W2, ... in that order.                                              *)
(***************************************************************************)
RECURSIVE WhereBounds(_, _)
WhereBounds(where_clause, n) ==
    IF Len(where_clause) = 0 THEN <<>>
    ELSE (IF where_clause[1].kind = "Type" /\ where_clause[1].name = n
          THEN where_clause[1].bounds ELSE <<>>)
         \o WhereBounds(Tail(where_clause), n)

C10_BoundsAppendedInOrder ==
    m_pc = "done" =>
        \A k \in DOMAIN m_params :
            (/\ m_params[k].kind = "Type"
             /\ \A j \in DOMAIN m_params : m_params[j].name = m_params[k].name => j = k)
            =>
                LET n == m_params[k].name
                    entries == { j \in DOMAIN m_result : m_result[j].name = n }
                IN  /\ Cardinality(entries) = 1
                    /\ \A j \in entries :
                          /\ m_result[j].kind = "Type"
                          /\ m_result[j].bounds
                                 = m_params[k].bounds \o WhereBounds(m_where, n)

\* [T: Clone] with the where-clause T: Send, T: Sync merged into one T with
\* the bounds Clone, Send, Sync.
C10_Witness ==
    /\ m_pc = "done"
    /\ m_params = <<TypeParam("T", <<"Clone">>, NoType)>>
    /\ m_where = <<TypeParam("T", <<"Send">>, NoType), TypeParam("T", <<"Sync">>, NoType)>>
    /\ m_result = <<TypeParam("T", <<"Clone", "Send", "Sync">>, NoType)>>

(***************************************************************************)
(* What the properties of the literals are stated with.                    *)
(***************************************************************************)
\* The text of entry e of the output of slot k.
Lexeme(k, e) == SubSeq(l_src[k], e.span[1] + 1, e.span[2])

\* The entries of the output of slot k that hold a token t.
Literals(k, t) ==
    { j \in DOMAIN l_out[k] : l_out[k][j].item.k = "Ok" /\ l_out[k][j].item.t = t }

\* The suffix of the longest entry of table that text ends with, and the
\* text in front of it.
LongestSuffix(table, text) ==
    LET hits == { j \in DOMAIN table : EndsWith(text, table[j].text) } IN
    IF hits = {} THEN [suffix |-> NoSuffix, rest |-> text]
    ELSE LET j == CHOOSE h \in hits :
                      \A g \in hits : Len(table[g].text) <= Len(table[h].text)
         IN  [suffix |-> table[j].suffix,
              rest |-> SubSeq(text, 1, Len(text) - Len(table[j].text))]

\* text with every "_" left out.
Separated(text) ==
    LET keep == { j \in DOMAIN text : text[j] # "_" } IN
    [n \in 1..Cardinality(keep) |->
        text[CHOOSE j \in keep : Cardinality({ i \in keep : i <= j }) = n]]

(***************************************************************************)
(* C15: for every lexeme of an integer pattern, parse_integer returns as   *)
(* suffix the longest entry of the suffix table the lexeme ends with (None *)
(* if there is none), as base Binary, Octal or Hex when what is left       *)
(* starts with 0b, 0o or 0x and Decimal otherwise, and as digits the rest  *)
(* without its underscores; so two integer lexemes that differ in the      *)
(* placement of underscores only give equal IntegerLiterals.               *)
(***************************************************************************)
ExpectedInteger(lexeme) ==
    LET s == LongestSuffix(SUFFIXES, lexeme)
        pre == IF Len(s.rest) >= 2 THEN SubSeq(s.rest, 1, 2) ELSE s.rest
        base == CASE pre = <<"0", "b">> -> "Binary"
                  [] pre = <<"0", "o">> -> "Octal"
                  [] pre = <<"0", "x">> -> "Hex"
                  [] OTHER -> "Decimal"
        rest == IF base = "Decimal" THEN s.rest ELSE SubSeq(s.rest, 3, Len(s.rest))
    IN  IntegerLiteral(base, Separated(rest), s.suffix)

C15_ParseIntegerFields ==
    /\ \A k \in Slot : \A j \in DOMAIN l_out[k] :
           LET e == l_out[k][j] IN
           MatchInteger(l_src[k], e.span[1]) = e.span[2] /\ e.item.t # "FloatLiteral"
               => e.item = Tok("IntegerLiteral", ExpectedInteger(Lexeme(k, e)))
    /\ \A i \in Literals(1, "IntegerLiteral"), j \in Literals(2, "IntegerLiteral") :
           Separated(Lexeme(1, l_out[1][i])) = Separated(Lexeme(2, l_out[2][j]))
               => l_out[1][i].item = l_out[2][j].item

\* 0x_Feu32 and 0x_F_eu32 both give {Hex, "Fe", U32}.
C15_Witness ==
    /\ l_src = << <<"0", "x", "_", "F", "e", "u", "3", "2">>,
                  <<"0", "x", "_", "F", "_", "e", "u", "3", "2">> >>
    /\ \A k \in Slot :
           /\ Len(l_out[k]) = 1
           /\ l_out[k][1].item
                  = Tok("IntegerLiteral", IntegerLiteral("Hex", <<"F", "e">>, "U32"))

(***************************************************************************)
(* C16: two lexemes of the float patterns that differ in their underscores *)
(* only, in the mantissa or in the exponent, give equal FloatLiterals: the *)
(* same digits, exponent and suffix.                                       *)
(***************************************************************************)
C16_FloatUnderscoresIrrelevant ==
    \A i \in Literals(1, "FloatLiteral"), j \in Literals(2, "FloatLiteral") :
        Separated(Lexeme(1, l_out[1][i])) = Separated(Lexeme(2, l_out[2][j]))
            => l_out[1][i].item = l_out[2][j].item

(***************************************************************************)
(* C17: for every lexeme of the float patterns, parse_float strips a       *)
(* trailing f32 or f64, then splits at the first e: the part before it is  *)
(* the mantissa digits, and the exponent is Positive(n) after "e+",        *)
(* Negative(n) after "e-" and Unsigned(n) after "e" and a digit, n being   *)
(* the decimal value of the exponent digits; without an e the exponent is  *)
(* None.                                                                   *)
(***************************************************************************)
\* The value of a text of decimal digits and underscores.
DecimalValue(text) ==
    LET digits == Separated(text) IN
    Numeral([j \in DOMAIN digits |->
                CHOOSE v \in 0..9 : DigitChars[v + 1] = digits[j]])

\* The parts of a float lexeme: its suffix, its mantissa, and the kind and
\* the value of its exponent.
FloatParts(lexeme) ==
    LET s == LongestSuffix(FLOAT_SUFFIXES, lexeme)
        es == { j \in DOMAIN s.rest : s.rest[j] \in {"e", "E"} }
        e == IF es = {} THEN Len(s.rest) + 1
             ELSE CHOOSE j \in es : \A i \in es : j <= i
        exp == SubSeq(s.rest, e + 1, Len(s.rest))
        kind == IF es = {} THEN "None"
                ELSE IF exp[1] = "+" THEN "Positive"
                ELSE IF exp[1] = "-" THEN "Negative"
                ELSE "Unsigned"
    IN  [suffix |-> s.suffix,
         mantissa |-> SubSeq(s.rest, 1, e - 1),
         kind |-> kind,
         n |-> IF kind = "None" THEN <<>>
               ELSE DecimalValue(IF kind = "Unsigned" THEN exp ELSE Tail(exp))]

ExpectedFloat(lexeme) ==
    LET p == FloatParts(lexeme) IN
    FloatLiteral(p.mantissa, FloatExponent(p.kind, p.n), p.suffix)

\* The entries of the output of slot k whose text is a lexeme of the float
\* patterns.
FloatEntries(k) ==
    { j \in DOMAIN l_out[k] :
        LET e == l_out[k][j] IN
        /\ MatchFloat(l_src[k], e.span[1]) = e.span[2]
        /\ MatchInteger(l_src[k], e.span[1]) < e.span[2] }

C17_ParseFloatFields ==
    \A k \in Slot : \A j \in FloatEntries(k) :
        l_out[k][j].item = Tok("FloatLiteral", ExpectedFloat(Lexeme(k, l_out[k][j])))

\* As C17 for the lexemes whose exponent value fits u32; a lexeme whose
\* exponent value is 2^32 or more gives an error item.
C17_ParseFloatFieldsInU32 ==
    \A k \in Slot : \A j \in FloatEntries(k) :
        LET lexeme == Lexeme(k, l_out[k][j]) IN
        l_out[k][j].item
            = IF NumLess(U32Max, FloatParts(lexeme).n) THEN ErrItem
              ELSE Tok("FloatLiteral", ExpectedFloat(lexeme))

\* 1.5e-2_0 gives {"1.5", Negative(20), None}.
C17_Witness ==
    /\ l_src[2] = <<"1", ".", "5", "e", "-", "2", "_", "0">>
    /\ Len(l_out[2]) = 1
    /\ l_out[2][1].item
           = Tok("FloatLiteral",
                 FloatLiteral(<<"1", ".", "5">>, FloatExponent("Negative", <<2, 0>>), NoSuffix))

(***************************************************************************)
(* C18: a point that no digit follows starts no float.  Where a token      *)
(* starts with a string d of decimal digits followed by a point and then   *)
(* by the end of the text or by a character that is no digit, the token is *)
(* IntegerLiteral(d) and the next one is Dot; where d is followed by the   *)
(* word f32 or f64, the token is IntegerLiteral(d) and the next one is the *)
(* keyword F32 or F64.                                                     *)
(***************************************************************************)
\* Entry j + 1 of the output of slot k, once it is there, is item at span.
Followed(k, j, item, span) ==
    j < Len(l_out[k]) => l_out[k][j + 1] = [item |-> item, span |-> span]

C18_PointWithoutDigitIsNoFloat ==
    \A k \in Slot : \A j \in DOMAIN l_out[k] :
        LET a == l_out[k][j].span[1]
            b == Run(l_src[k], a, Digit)
            d == SubSeq(l_src[k], a + 1, b)
            int == [item |-> Tok("IntegerLiteral", IntegerLiteral("Decimal", d, NoSuffix)),
                    span |-> <<a, b>>]
            word == Run(l_src[k], b, Letter \cup Digit \cup {"_"})
        IN  /\ (b > a /\ At(l_src[k], b) = "." /\ At(l_src[k], b + 1) \notin Digit)
                => /\ l_out[k][j] = int
                   /\ Followed(k, j, Tok("Dot", <<>>), <<b, b + 1>>)
            /\ \A kw \in DOMAIN FLOAT_SUFFIXES :
                   (b > a /\ SubSeq(l_src[k], b + 1, word) = FLOAT_SUFFIXES[kw].text)
                       => /\ l_out[k][j] = int
                          /\ Followed(k, j, Tok(FLOAT_SUFFIXES[kw].suffix, <<>>), <<b, word>>)

\* "a 20." gives Ident, IntegerLiteral(20), Dot.
C18_Witness ==
    /\ l_src[1] = <<"a", SP, "2", "0", ".">>
    /\ Len(l_out[1]) = 3
    /\ l_out[1][2].item
           = Tok("IntegerLiteral", IntegerLiteral("Decimal", <<"2", "0">>, NoSuffix))
    /\ l_out[1][3].item = Tok("Dot", <<>>)

(***************************************************************************)
(* C19: as_u64 reads the digits in radix 2, 8, 10 or 16 according to the   *)
(* base.  It returns Ok(v) exactly when every digit is valid in the radix  *)
(* and the value v is below 2^64, fails with the overflow kind when the    *)
(* digits are valid and the value is 2^64 or more, and fails with the      *)
(* invalid-digit kind when some digit is not valid in the radix; the       *)
(* conversion to LexicalError gives the two failures different reasons.    *)
(***************************************************************************)
RadixOf(base) ==
    CASE base = "Binary" -> 2 [] base = "Octal" -> 8
      [] base = "Decimal" -> 10 [] base = "Hex" -> 16

\* The characters that are digits in the radix, and the value of a text of
\* such characters.
ValidDigits(radix) ==
    { DigitChars[j] : j \in 1..radix } \cup { UpperDigitChars[j] : j \in 1..radix }

ValueIn(radix, text) ==
    Numeral([j \in DOMAIN text |->
                CHOOSE v \in 0..(radix - 1) :
                    text[j] \in {DigitChars[v + 1], UpperDigitChars[v + 1]}])

FitsU64(radix, text) == ~NumLess(U64Max(radix), ValueIn(radix, text))

OverflowReason == "integer overflow (too large)"
InvalidDigitReason == "invalid digit in integer literal"

\* The reasons of the conversion, whatever as_u64 returned.
ReasonsDiffer ==
    l_conv.result.k = "Err" =>
        /\ l_conv.result.v = "PosOverflow" => l_conv.error.reason = OverflowReason
        /\ l_conv.result.v = "InvalidDigit" => l_conv.error.reason = InvalidDigitReason
        /\ l_conv.result.v = "Empty"
               => l_conv.error.reason \notin {OverflowReason, InvalidDigitReason}

C19_AsU64Kinds ==
    l_conv.done =>
        LET radix == RadixOf(l_lit.lit.base)
            digits == l_lit.lit.digits
            valid == \A j \in DOMAIN digits : digits[j] \in ValidDigits(radix)
        IN  /\ IF valid
               THEN l_conv.result = IF FitsU64(radix, digits)
                                    THEN ParseOk(ValueIn(radix, digits))
                                    ELSE ParseIntError("PosOverflow")
               ELSE l_conv.result = ParseIntError("InvalidDigit")
            /\ ReasonsDiffer

\* As C19, with what from_str_radix does at the edges: one "+" in front of
\* the digits is skipped, no digits at all is a failure of the kind Empty, a
\* sign alone is an invalid digit, and the digits are read from the left, so
\* that an overflow in front of an invalid character is an overflow.
C19_AsU64KindsFromTheLeft ==
    l_conv.done =>
        LET radix == RadixOf(l_lit.lit.base)
            text == l_lit.lit.digits
            digits == IF Len(text) > 1 /\ text[1] = "+" THEN Tail(text) ELSE text
            ends == { j \in 0..Len(digits) :
                        \A i \in 1..j : digits[i] \in ValidDigits(radix) }
            read == SubSeq(digits, 1, CHOOSE j \in ends : \A i \in ends : i <= j)
        IN  /\ l_conv.result =
                   IF Len(text) = 0 THEN ParseIntError("Empty")
                   ELSE IF ~FitsU64(radix, read) THEN ParseIntError("PosOverflow")
                   ELSE IF read # digits THEN ParseIntError("InvalidDigit")
                   ELSE ParseOk(ValueIn(radix, read))
            /\ ReasonsDiffer
            /\ (l_lit.span # NoSpan /\ l_conv.result.k = "Err")
                   => l_conv.result.v = "PosOverflow"

\* The lexeme 0x10000000000000000 (2^64) converted: an overflow.
C19_Witness ==
    /\ l_src[1] = <<"0", "x", "1">> \o Times("0", 16)
    /\ l_lit.lit = IntegerLiteral("Hex", <<"1">> \o Times("0", 16), NoSuffix)
    /\ l_conv.done
    /\ l_conv.result = ParseIntError("PosOverflow")
    /\ l_conv.error.reason = OverflowReason

(***************************************************************************)
(* C20: every LexicalError made for a failing literal, the InvalidInteger  *)
(* of parse_integer for an empty digit string and the error converted from *)
(* the ParseIntError of an overflow or an invalid digit, carries the span  *)
(* of the literal's own lexeme.                                            *)
(***************************************************************************)
C20_ErrorCarriesLexemeSpan ==
    /\ \A k \in Slot : \A j \in DOMAIN l_out[k] :
           (l_out[k][j].item.k = "Err" /\ l_out[k][j].item.s # <<>>)
               => l_out[k][j].item.s.span = l_out[k][j].span
    /\ (l_conv.done /\ l_conv.result.k = "Err" /\ l_lit.span # NoSpan)
           => l_conv.error.span = l_lit.span

(***************************************************************************)
(* The parser's grammar.                                                   *)
(***************************************************************************)
\* The kinds of the tokens of the stream.
Kinds(tokens) == [j \in DOMAIN tokens |-> tokens[j].token.t]

\* The parse of the first n items as a type.
TypeOf(tokens, n) == Parse("Type", SubSeq(tokens, 1, n))

\* The parse of items from..to as a type.
TypeBetween(tokens, from, to) == Parse("Type", SubSeq(tokens, from, to))

\* Items from..to hold no `!`.
NoBang(tokens, from, to) == \A j \in from..to : tokens[j].token.t # "Bang"

IsPointer(ty, nullable, element) ==
    /\ ty.t = "Pointer"
    /\ ty.nullable = nullable
    /\ ty.element_type = element

\* C11: in a type, `!` takes everything on its left as its ok type and a
\* bare path as its error type: a type T without `!`, followed by `! E`,
\* parses as ErrorUnion{ok: T, err: E} whatever pointer and nullable
\* prefixes T starts with; `*i32 ! E` has ok type Pointer(I32) and
\* `?*i32 ! E` has ok type Pointer{nullable, I32}; a pointer prefix behind
\* `!` is rejected; the target of the cast `x as T ! E` is ErrorUnion(T, E).
C11_ErrorUnionBindsLoosest ==
    p_pc = "done" /\ Len(p_tokens) >= 3 =>
        LET n == Len(p_tokens)
            kinds == Kinds(p_tokens)
            err == Path(<<p_tokens[n].token.s>>)
        IN  /\ ( /\ p_entry = "Type"
                 /\ kinds[n - 1] = "Bang" /\ kinds[n] = "Ident"
                 /\ NoBang(p_tokens, 1, n - 2)
                 /\ TypeOf(p_tokens, n - 2).k = "Ok" )
               => p_result = ParsedOk(ErrorUnion(TypeOf(p_tokens, n - 2).v, err))
            /\ ( /\ p_entry = "Type"
                 /\ kinds[n - 1] = "Bang" /\ kinds[n] \in {"Star", "Question"}
                 /\ NoBang(p_tokens, 1, n - 2)
                 /\ TypeOf(p_tokens, n - 2).k = "Ok" )
               => p_result = UnrecognizedToken(p_tokens[n])
            /\ (p_entry = "Type" /\ kinds = <<"Star", "I32", "Bang", "Ident">>)
               => /\ p_result.k = "Ok"
                  /\ p_result.v.t = "ErrorUnion"
                  /\ IsPointer(p_result.v.ok_type, FALSE, Primitive("I32"))
                  /\ p_result.v.err_type = err
            /\ (p_entry = "Type" /\ kinds = <<"Question", "Star", "I32", "Bang", "Ident">>)
               => /\ p_result.k = "Ok"
                  /\ p_result.v.t = "ErrorUnion"
                  /\ IsPointer(p_result.v.ok_type, TRUE, Primitive("I32"))
                  /\ p_result.v.err_type = err
            /\ ( /\ p_entry = "Expression" /\ n >= 5
                 /\ kinds[1] = "Ident" /\ kinds[2] = "As"
                 /\ kinds[n - 1] = "Bang" /\ kinds[n] = "Ident"
                 /\ NoBang(p_tokens, 3, n - 2)
                 /\ TypeBetween(p_tokens, 3, n - 2).k = "Ok" )
               => p_result =
                      ParsedOk(Cast(PathExpr(Path(<<p_tokens[1].token.s>>)),
                                    ErrorUnion(TypeBetween(p_tokens, 3, n - 2).v, err)))

\* `?*i32 ! a` has been parsed as a type.
C11_Witness ==
    /\ p_pc = "done"
    /\ p_entry = "Type"
    /\ Kinds(p_tokens) = <<"Question", "Star", "I32", "Bang", "Ident">>
    /\ p_result = ParsedOk(ErrorUnion(Pointer(TRUE, FALSE, Primitive("I32")), Path(<<"a">>)))

\* The operators of the two levels, by their tokens.
AdditiveNames == [Plus |-> "Add", Minus |-> "Subtract"]

MultiplicativeNames == [Star |-> "Multiply", Slash |-> "Divide", Percent |-> "Modulo"]

\* The expression of an operand's token.
Operand(item) ==
    IF item.token.t = "IntegerLiteral" THEN IntegerExpr(item.token.s)
    ELSE PathExpr(Path(<<item.token.s>>))

IsOperand(item) == item.token.t \in {"IntegerLiteral", "Ident"}

IsAdditive(tree) ==
    tree.e = "BinaryOp" /\ tree.op \in { AdditiveNames[t] : t \in DOMAIN AdditiveNames }

IsMultiplicative(tree) ==
    tree.e = "BinaryOp"
    /\ tree.op \in { MultiplicativeNames[t] : t \in DOMAIN MultiplicativeNames }

\* No multiplicative operation of the tree has an additive operation as an
\* operand.
RECURSIVE TighterInside(_)
TighterInside(tree) ==
    CASE tree.e = "BinaryOp" ->
             /\ IsMultiplicative(tree) => ~IsAdditive(tree.lhs) /\ ~IsAdditive(tree.rhs)
             /\ TighterInside(tree.lhs)
             /\ TighterInside(tree.rhs)
      [] tree.e = "UnaryOp" -> TighterInside(tree.operand)
      [] tree.e = "Cast" -> TighterInside(tree.expr)
      [] OTHER -> TRUE

RECURSIVE Handed(_, _)
Handed(source, pos) ==
    CHOOSE rest \in
        { IF r.item = NoneItem THEN <<>>
          ELSE <<[item |-> r.item, span |-> r.span]>> \o Handed(source, r.pos) :
            r \in {RawNext(source, pos)} } : TRUE

\* What the parser-facing Lexer makes of the first n of them.
AsItem(x) ==
    IF x.item.k = "Ok" THEN LexerOk(x.span[1], x.item, x.span[2]) ELSE LexerErr(InvalidToken)

Items(stream, n) == [j \in 1..n |-> AsItem(stream[j])]

ErrorsOf(stream) == { j \in DOMAIN stream : stream[j].item.k = "Err" }

First(set) == CHOOSE j \in set : \A i \in set : j <= i

\* The items the grammar of the entry point cannot take behind the ones
\* before them.
Untakable(entry, items) == { j \in DOMAIN items : ~Viable(entry, SubSeq(items, 1, j)) }

\* The parse has failed with the error item that ends items, and has taken
\* no item behind it.
ErrorItemReported(items) ==
    /\ p_result = User(InvalidToken)
    /\ p_tokens = items
    /\ Len(out[1]) = Len(items)

\* The parse has failed at the first item the grammar cannot take, or, with
\* no such item before the error item that ends items, with that error item;
\* it has taken no item behind the one it failed at.
FirstFailureReported(items, bad) ==
    IF bad = {} THEN ErrorItemReported(items)
    ELSE /\ p_result = UnrecognizedToken(items[First(bad)])
         /\ p_tokens = SubSeq(items, 1, First(bad))
         /\ Len(out[1]) = First(bad)

UpToFirstError(stream) == Items(stream, First(ErrorsOf(stream)))

\* C13 as stated: a stream with an error item makes the parse fail with the
\* first error item, whatever stands before it.
C13_FirstErrorItemReported ==
    p_pc = "done" /\ ErrorsOf(Handed(lx[1].source, 0)) # {} =>
        ErrorItemReported(UpToFirstError(Handed(lx[1].source, 0)))

\* The items of the stream up to its first error item, without that item.
BeforeFirstError(stream) == Items(stream, First(ErrorsOf(stream)) - 1)

\* C13: a stream with an error item makes the parse fail with one error: the
\* first error item if the grammar can take every token before it, and
\* otherwise the first token the grammar cannot take; no item behind the
\* one the parse failed at is taken from the stream.
C13_FirstFailureReported ==
    p_pc = "done" /\ ErrorsOf(Handed(lx[1].source, 0)) # {} =>
        FirstFailureReported(UpToFirstError(Handed(lx[1].source, 0)),
                             Untakable(p_entry, BeforeFirstError(Handed(lx[1].source, 0))))

\* `a + $ $` has been parsed as an expression: the parse failed with the
\* first of the two error items, after three items.
C13_Witness ==
    /\ p_pc = "done"
    /\ p_entry = "Expression"
    /\ lx[1].source = <<"a", SP, "+", SP, "$", SP, "$">>
    /\ p_result = User(InvalidToken)
    /\ Len(p_tokens) = 3

\* LexicalError::from_lexer (crates/nyx-lexer/src/error.rs) on the span and
\* the slice of the rejected text.  Of the characters of the model's texts
\* a carriage return is an ASCII control character; all are ASCII.
UnexpectedCharacter(span, character) ==
    [reason |-> "UnexpectedCharacter", span |-> span, character |-> character]

UnrecognizedTokenError(span, text) ==
    [reason |-> "UnrecognizedToken", span |-> span, text |-> text]

from_lexer(span, slice) ==
    IF Len(slice) > 0
    THEN IF slice[1] = CR
         THEN UnexpectedCharacter(span, slice[1])
         ELSE UnrecognizedTokenError(span, slice)
    ELSE InvalidToken

\* C14: the error of a parse that failed with an error item of the Lexer is
\* the error from_lexer makes of the rejected text: UnexpectedCharacter or
\* UnrecognizedToken, with the span of that text.
C14_ErrorCarriesSpanAndReason ==
    p_pc = "done" /\ p_result.k = "Err" /\ p_result.v.kind = "User" =>
        /\ p_result.v.error.reason \in {"UnexpectedCharacter", "UnrecognizedToken"}
        /\ p_result.v.error =
               from_lexer(lx[1].span, SubSeq(lx[1].source, lx[1].span[1] + 1, lx[1].span[2]))

(***************************************************************************)
(* Line and column of a byte offset.                                       *)
(***************************************************************************)
\* The characters of source that start before byte offset o.
CharsBefore(source, o) == { k \in DOMAIN source : ByteLen(source, k - 1) < o }

NewlinesBefore(source, o) == { k \in CharsBefore(source, o) : source[k] = NL }

LastNewlineBefore(source, o) ==
    IF NewlinesBefore(source, o) = {} THEN 0
    ELSE CHOOSE k \in NewlinesBefore(source, o) : \A j \in NewlinesBefore(source, o) : j <= k

\* C21: position_from_source(source, o) is the pair of 1 + the number of
\* newlines before byte offset o and 1 + the number of characters between
\* the last of them (or the start of the source) and byte offset o.
C21_PositionOfByteOffset ==
    t_position # NoPosition =>
        t_position =
            << 1 + Cardinality(NewlinesBefore(t_source, t_offset)),
               1 + Cardinality({ k \in CharsBefore(t_source, t_offset) :
                                   k > LastNewlineBefore(t_source, t_offset) }) >>

(***************************************************************************)
(* Lexers run together.                                                    *)
(***************************************************************************)
\* The fields and the items returned after n calls of next() on a lexer
\* that starts with the fields st and is run alone.
RECURSIVE Alone(_, _)
AloneStep(a, c) == [st |-> c.st, items |-> Append(a.items, c.item)]

AloneNext(a) == AloneStep(a, next(a.st))

Alone(st, n) == IF n = 0 THEN [st |-> st, items |-> <<>>] ELSE AloneNext(Alone(st, n - 1))

IsPrefix(s, t) == Len(s) <= Len(t) /\ SubSeq(t, 1, Len(s)) = s

\* Entry j of the where-clause is a Type constraint whose name is that of
\* no Type parameter of params and of no earlier Type constraint.
Fresh(params, where_clause, j) ==
    /\ where_clause[j].kind = "Type"
    /\ \A k \in DOMAIN params :
           params[k].kind = "Type" => params[k].name # where_clause[j].name
    /\ \A h \in 1..(j - 1) :
           where_clause[h].kind = "Type" => where_clause[h].name # where_clause[j].name

\* The names of the fresh constraints among the first j entries, in order.
RECURSIVE FreshNames(_, _, _)
FreshNames(params, where_clause, j) ==
    IF j = 0 THEN <<>>
    ELSE FreshNames(params, where_clause, j - 1)
             \o (IF Fresh(params, where_clause, j) THEN <<where_clause[j].name>> ELSE <<>>)

\* Parameter k of params is at position k of the result with its kind,
\* name, default type and, as a prefix, its bounds; a Const parameter is
\* returned as it was.
Kept(k) ==
    /\ k <= Len(m_result)
    /\ m_result[k].kind = m_params[k].kind
    /\ m_result[k].name = m_params[k].name
    /\ m_params[k].kind = "Const" => m_result[k] = m_params[k]
    /\ m_params[k].kind = "Type" =>
           /\ m_result[k].default_type = m_params[k].default_type
           /\ IsPrefix(m_params[k].bounds, m_result[k].bounds)

\* The entries of the result behind those of params.
Appended == SubSeq(m_result, Len(m_params) + 1, Len(m_result))

RECURSIVE Depth(_, _)
Depth(raw, n) ==
    IF n = 0 THEN 0
    ELSE Depth(raw, n - 1)
             + (IF raw[n] = "{" THEN 1 ELSE IF raw[n] = "}" THEN -1 ELSE 0)

\* Every closing brace of raw closes an opening one and none is left open.
Balanced(raw) ==
    /\ \A n \in 0..Len(raw) : Depth(raw, n) >= 0
    /\ Depth(raw, Len(raw)) = 0

\* Between characters n and n + 1 of raw an outermost group begins or ends.
Cut(raw, n) ==
    /\ n \in 1..(Len(raw) - 1)
    /\ Depth(raw, n) = 0
    /\ raw[n + 1] = "{" \/ raw[n] = "}"

\* raw from its character n + 1 on, split at its cuts: the maximal runs of
\* text outside braces and the outermost groups, in order.
NextCut(raw, n) ==
    IF \E m \in (n + 1)..Len(raw) : Cut(raw, m)
    THEN CHOOSE m \in (n + 1)..Len(raw) :
             Cut(raw, m) /\ \A h \in (n + 1)..(m - 1) : ~Cut(raw, h)
    ELSE Len(raw)

RECURSIVE RunsAndGroups(_, _)
RunsAndGroups(raw, n) ==
    IF n >= Len(raw) THEN <<>>
    ELSE <<SubSeq(raw, n + 1, NextCut(raw, n))>> \o RunsAndGroups(raw, NextCut(raw, n))

\* The texts of the parts, one after the other.
RECURSIVE Flatten(_)
Flatten(parts) == IF parts = <<>> THEN <<>> ELSE Head(parts).text \o Flatten(Tail(parts))

\* C24: of a raw string with balanced braces parse_interp_parts returns
\* non-empty Text parts only, one per maximal run of text outside braces
\* and one per outermost group with all of its braces, in order, and the
\* parts put together are raw.
C24_BalancedSplitsIntoRunsAndGroups ==
    (i_parts # NoParts /\ Balanced(i_raw)) =>
        /\ i_parts.k = "parts"
        /\ \A a \in DOMAIN i_parts.v :
               i_parts.v[a].kind = "Text" /\ i_parts.v[a].text # <<>>
        /\ [a \in DOMAIN i_parts.v |-> i_parts.v[a].text] = RunsAndGroups(i_raw, 0)
        /\ Flatten(i_parts.v) = i_raw

\* A run of text, a group with a nested group, and a run of text.
C24_Witness ==
    /\ i_raw = <<"a", "{", "{", "}", "}", "a">>
    /\ i_parts.k = "parts"
    /\ i_parts.v = <<Text(<<"a">>), Text(<<"{", "{", "}", "}">>), Text(<<"a">>)>>

\* C28: parse_interp_parts completes on every input and never takes its
\* depth counter below 0.
C28_DepthNeverBelowZero ==
    i_parts # NoParts => (i_parts.k = "parts" /\ ~i_parts.underflow)

(***************************************************************************)
(* The shape of the indent stack.                                          *)
(***************************************************************************)
\* The levels 0, 4, ..., 4 * (n - 1).
Levels(n) == [k \in 1..n |-> IndentUnit * (k - 1)]

\* C25: the indent stack of a lexer always holds its base level 0 and,
\* above it, the consecutive multiples of 4: it is never empty, so its top
\* can be read, and neither a dedent nor the flush at the end of the input
\* pops the base.
C25_StackIsConsecutiveLevels ==
    \A i \in active :
        /\ Len(lx[i].indent_stack) >= 1
        /\ lx[i].indent_stack = Levels(Len(lx[i].indent_stack))

\* The flush has popped the last open level and left the base, in a run
\* where a line's dedent had popped a level before.
C25_Witness ==
    /\ last[1].branch = "flush"
    /\ last[1].before.indent_stack = <<0, 4>>
    /\ lx[1].indent_stack = <<0>>
    /\ \E k \in 1..(Len(out[1]) - 1) : out[1][k] = Dedent /\ IsReal(out[1][k + 1])
    /\ Count(out[1], Indent) >= 2

(***************************************************************************)
(* The level of a line.                                                    *)
(***************************************************************************)
\* The call just made on lexer i evaluated the indentation of a line.
JustEvaluated(i) == last[i].branch \in {"layout", "evaluated"}

\* C26: when a call has evaluated the indentation of a line of width w,
\* the top of the stack is 4 * floor(w / 4) and floor(w / 4) levels stand
\* above the base, whatever the stack was before.
C26_LevelDependsOnOwnWidth ==
    \A i \in active :
        JustEvaluated(i) =>
            /\ lx[i].indent_stack[Len(lx[i].indent_stack)] = IndentUnit * (EvWidth(i) \div IndentUnit)
            /\ Len(lx[i].indent_stack) - 1 = EvWidth(i) \div IndentUnit

\* Lines of widths 4 and 12 had opened three levels when a line of width 6
\* was evaluated and left one.
C26_Witness ==
    /\ JustEvaluated(1)
    /\ EvStack(1) = <<0, 4, 8, 12>>
    /\ EvWidth(1) = 6
    /\ lx[1].indent_stack = <<0, 4>>

(***************************************************************************)
(* Layout tokens and open levels.                                          *)
(***************************************************************************)
\* The tokens of kind t that lexer i has returned or holds in its queue.
Produced(i, t) == Count(out[i], t) + Count(lx[i].pending_tokens, t)

\* C27: no prefix of the output holds more Dedent than Indent tokens, and
\* the Indent tokens returned or queued exceed the Dedent tokens returned
\* or queued by the number of levels above the base.
C27_LayoutTokensMatchOpenLevels ==
    \A i \in active :
        /\ \A k \in 0..Len(out[i]) :
               Count(SubSeq(out[i], 1, k), Dedent) <= Count(SubSeq(out[i], 1, k), Indent)
        /\ Produced(i, Indent) - Produced(i, Dedent) = Len(lx[i].indent_stack) - 1

\* Three Indents were returned; of the three Dedents of the next line one
\* is returned and two are queued, and the stack is at its base.
C27_Witness ==
    /\ Count(out[1], Indent) = 3
    /\ Count(out[1], Dedent) = 1
    /\ Count(lx[1].pending_tokens, Dedent) = 2
    /\ lx[1].indent_stack = <<0>>

(***************************************************************************)
(* The pending queue.                                                      *)
(***************************************************************************)
\* queue is empty, or layout tokens of one kind followed by one real token.
WellFormedQueue(queue) ==
    \/ queue = <<>>
    \/ /\ IsReal(queue[Len(queue)])
       /\ \E t \in {Indent, Dedent} : \A k \in 1..(Len(queue) - 1) : queue[k] = t

\* C30: a call that pulls from the raw lexer finds the pending queue
\* empty; the queue is always empty or made of layout tokens of a single
\* kind followed by exactly one real token that is not a Newline; a queued
\* token is returned from the front; and the layout token a call returns
\* is of the kind of those it queues.
C30_QueueIsLayoutThenRealToken ==
    \A i \in active :
        /\ WellFormedQueue(lx[i].pending_tokens)
        /\ last[i].branch \notin {"init", "pending"} =>
               last[i].before.pending_tokens = <<>>
        /\ last[i].branch = "pending" =>
               /\ last[i].item = Head(last[i].before.pending_tokens)
               /\ lx[i].pending_tokens = Tail(last[i].before.pending_tokens)
        /\ last[i].branch = "layout" =>
               /\ lx[i].pending_tokens # <<>>
               /\ \A k \in 1..(Len(lx[i].pending_tokens) - 1) :
                      lx[i].pending_tokens[k] = last[i].item

\* Of three Indents and the token of a line, the second Indent has just
\* been returned from the queue.
C30_Witness ==
    /\ last[1].branch = "pending"
    /\ Len(last[1].before.pending_tokens) = 3
    /\ last[1].item = Indent
    /\ Len(lx[1].pending_tokens) = 2
    /\ lx[1].pending_tokens[1] = Indent
    /\ IsReal(lx[1].pending_tokens[2])

(***************************************************************************)
(* The spans of the parser-facing Lexer.                                   *)
(***************************************************************************)
\* The Ok items among the items taken from the Lexer, in order.
OkItems == SelectSeq(p_tokens, LAMBDA x : x.k = "Ok")

IsLayoutItem(x) == x.k = "Ok" /\ x.token \in {Indent, Dedent}

\* C29: every Ok item of the Lexer has start <= end <= len(source), the
\* starts of the Ok items never decrease, and an Indent or Dedent with
\* only layout tokens between it and a real token has the start and the
\* end of that token.
C29_SpansAreOrderedAndLayoutSharesSpan ==
    /\ \A j \in DOMAIN OkItems :
           /\ 0 <= OkItems[j].start
           /\ OkItems[j].start <= OkItems[j].end
           /\ OkItems[j].end <= Len(lx[1].source)
    /\ \A j \in 1..(Len(OkItems) - 1) : OkItems[j].start <= OkItems[j + 1].start
    /\ \A j \in DOMAIN p_tokens : \A k \in DOMAIN p_tokens :
           (/\ j < k
            /\ \A h \in j..(k - 1) : IsLayoutItem(p_tokens[h])
            /\ p_tokens[k].k = "Ok" /\ IsReal(p_tokens[k].token))
           => /\ p_tokens[j].start = p_tokens[k].start
              /\ p_tokens[j].end = p_tokens[k].end

\* The stream has ended; it holds two Indents in front of a token that
\* does not start the text, and a Dedent in front of a later token.
C29_Witness ==
    /\ nones[1] > 0
    /\ \E j \in 1..(Len(p_tokens) - 2) :
           /\ p_tokens[j].token = Indent
           /\ p_tokens[j + 1].token = Indent
           /\ p_tokens[j + 2].k = "Ok" /\ IsReal(p_tokens[j + 2].token)
           /\ p_tokens[j].start = p_tokens[j + 2].start
           /\ p_tokens[j].start > 0
    /\ \E j \in 1..(Len(p_tokens) - 1) :
           /\ p_tokens[j].token = Dedent
           /\ p_tokens[j + 1].k = "Ok" /\ IsReal(p_tokens[j + 1].token)

====
